---- MODULE Spec2Model ----
(***************************************************************************)
(* A model of the piper flow engine (package engine): Engine.Run,          *)
(* runWithContext, executeParallel, executeStepWithRetry, executeStep,     *)
(* handleStepError and the StepContext's Steps map.                        *)
(*                                                                         *)
(* One behaviour is one Run of one flow.  The flow is drawn in Init from   *)
(* a bounded catalogue; every connector call draws its outcome; the        *)
(* workers of a parallel group interleave freely; the run's context may    *)
(* be cancelled at any moment.                                             *)
(***************************************************************************)
EXTENDS Integers, Sequences, FiniteSets, TLC

\* ------------------------------------------------------------------ bounds
\* Longest flow (top-level steps) drawn from the core catalogue.
MaxSteps == 3
\* Largest max_retries of a retry config in the catalogue.
MaxRetriesBound == 2
\* Deepest nesting of maps and lists around a string of a step's input.
MaxDepth == 2
\* Most threads that use the registry at the same time.
MaxThreads == 2

\* ------------------------------------------------------- program constants
\* executeStepWithRetry: max_retries <= 0 means 3.
DefaultMaxRetries == 3

\* ------------------------------------------------------------ data model
\* A step name.  Steps are named after their place in the flow, so names are
\* unique: <<i, 0>> is top-level step i, <<i, j>> is child j of the group at i.
NameOf(i, j) == <<i, j>>

\* types.RetryConfig, or its absence (step.Retry == nil).  BackoffSeconds is
\* a float64 in the program; here it is counted in hundredths of a second
\* (150 is 1.5), 0 when the key is not set.
NoRetry == [present |-> FALSE, MaxRetries |-> 0, BackoffSeconds |-> 0]
RetryConfig(n) == [present |-> TRUE, MaxRetries |-> n, BackoffSeconds |-> 0]
RetryBackoff(n, b) == [present |-> TRUE, MaxRetries |-> n, BackoffSeconds |-> b]

\* A when-condition.  kind "none" is the empty string; "status" is
\* ${{ steps.<step>.status == "<lit>" }}; "false" is ${{ false }}; "bad" is a
\* string that is not a well-formed condition.
NoWhen == [kind |-> "none", step |-> <<0, 0>>, lit |-> ""]
WhenStatus(n, l) == [kind |-> "status", step |-> n, lit |-> l]
WhenFalse == [kind |-> "false", step |-> <<0, 0>>, lit |-> ""]
WhenBad == [kind |-> "bad", step |-> <<0, 0>>, lit |-> ""]

\* StepResult.Output: nil, or a map with the given keys.
NilOutput == [isNil |-> TRUE, keys |-> {}]
OutputMap(ks) == [isNil |-> FALSE, keys |-> ks]

\* types.StepResult (the fields the engine reads or writes).
StepResult(n, st, err, out, r) ==
    [name |-> n, status |-> st, error |-> err, output |-> out, retries |-> r]

\* The zero value of a slot of the preallocated results array.
ZeroResult == StepResult(<<0, 0>>, "", "", NilOutput, 0)

\* A reference in a string of a step's input: ${{ steps.<step>.status }} when
\* field is "status", ${{ steps.<step>.output.<field> }} otherwise.  chain lists
\* the containers ("map", "list") between the input map and the string, from
\* the outside in; it is empty for a string that is a value of the input map.
RefAt(n, f, chain) == [step |-> n, field |-> f, chain |-> chain]

Ref(n, f) == RefAt(n, f, <<>>)

\* types.StepDef.  refs are the steps.* references of the input map; parallel
\* is the list of children of a group marker, empty for an ordinary step.
\* action is the action the connector has, if it has one.
StepDef(n, c, oe, rt, w, rs, par) ==
    [name |-> n, connector |-> c,
     action |-> CASE c = "log" -> "print" [] c = "shell" -> "run"
                  [] c = "http" -> "request" [] c = "webhook" -> "trigger"
                  [] OTHER -> "",
     onError |-> oe, retry |-> rt, when |-> w, refs |-> rs, parallel |-> par]

\* ------------------------------------------------------------ connectors
\* The built-in connectors defaultRegistry registers.
Registered == {"http", "shell", "log", "webhook"}

\* What each connector's Execute can return: the status of the fragment, or
\* "error" for a returned Go error.
\* log (action print) prints and succeeds.
LogOutcomes == {"success"}
\* shell reports the exit code ("failed" when it is not 0) or fails to start.
ShellOutcomes == {"success", "failed", "error"}
\* http reports the response ("failed" from status 400 on) or a transport error.
HTTPOutcomes == {"success", "failed", "error"}
\* webhook is a trigger and cannot be executed.
WebhookOutcomes == {"error"}

ExecuteOutcomes(c) ==
    CASE c = "log" -> LogOutcomes
      [] c = "shell" -> ShellOutcomes
      [] c = "http" -> HTTPOutcomes
      [] c = "webhook" -> WebhookOutcomes
      [] OTHER -> {}

\* The output map of a fragment.
ExecuteOutput(c) ==
    CASE c = "log" -> OutputMap({"message"})
      [] c = "shell" -> OutputMap({"stdout", "stderr", "exit_code"})
      [] c = "http" -> OutputMap({"status_code", "body", "headers"})
      [] OTHER -> NilOutput

\* --------------------------------------------------------- flow catalogue
\* A step template: a step before it is given its place (and so its name and
\* the names it refers to).  whenKind: none | status | sibstatus | false | bad.
\* refKind: none | prev | self | sib, and deepprev | deepself for a reference
\* written inside a list that is an item of a list of the input.
Tpl(oe, rt, wk, rk, c) ==
    [group |-> FALSE, onError |-> oe, retry |-> rt, whenKind |-> wk,
     refKind |-> rk, connector |-> c, children |-> <<>>]
Grp(oe, ch) ==
    [group |-> TRUE, onError |-> oe, retry |-> NoRetry, whenKind |-> "none",
     refKind |-> "none", connector |-> "", children |-> ch]

\* The name a "prev" reference of the step at place i stands for: the step
\* declared just before it (the last child, if that is a group); a name no
\* step has when i = 1.
PrevName(ts, i) ==
    IF i = 1 THEN NameOf(0, 0)
    ELSE IF ts[i - 1].group THEN NameOf(i - 1, Len(ts[i - 1].children))
    ELSE NameOf(i - 1, 0)

\* The step a template becomes at place <<i, j>>; n is the number of children
\* of the enclosing group (0 for a top-level step).
Instantiate(t, i, j, n, prev) ==
    LET target(k) == CASE k \in {"prev", "deepprev"} -> prev
                       [] k \in {"self", "deepself"} -> NameOf(i, j)
                       [] k = "sib" -> NameOf(i, (j % n) + 1)
                       [] OTHER -> NameOf(0, 0)
        w == CASE t.whenKind = "status" -> WhenStatus(prev, "success")
               [] t.whenKind = "sibstatus" -> WhenStatus(target("sib"), "success")
               [] t.whenKind = "false" -> WhenFalse
               [] t.whenKind = "bad" -> WhenBad
               [] OTHER -> NoWhen
        rs == IF t.refKind = "none" THEN {}
              ELSE IF t.refKind \in {"deepprev", "deepself"}
              THEN {RefAt(target(t.refKind), "stdout", <<"list", "list">>)}
              ELSE {Ref(target(t.refKind), "stdout")}
    IN  StepDef(NameOf(i, j), t.connector, t.onError, t.retry, w, rs, <<>>)

\* The flow (its list of steps) a list of templates stands for.
BuildFlow(ts) ==
    [i \in 1..Len(ts) |->
        IF ts[i].group
        THEN StepDef(NameOf(i, 0), "", ts[i].onError, NoRetry, NoWhen, {},
                     [j \in 1..Len(ts[i].children) |->
                        Instantiate(ts[i].children[j], i, j,
                                    Len(ts[i].children), PrevName(ts, i))])
        ELSE Instantiate(ts[i], i, 0, 1, PrevName(ts, i))]

\* The core catalogue: flows of every length up to MaxSteps are built of it.
CoreTemplates ==
    { Tpl("", NoRetry, "none", "none", "shell"),
      Tpl("continue", NoRetry, "status", "prev", "shell"),
      Tpl("skip", NoRetry, "none", "prev", "shell"),
      Tpl("retry", RetryConfig(1), "none", "none", "shell"),
      Grp("continue", << Tpl("", NoRetry, "none", "prev", "shell"),
                         Tpl("retry", RetryConfig(1), "none", "sib", "shell") >>),
      Grp("", << Tpl("skip", NoRetry, "sibstatus", "none", "log"),
                 Tpl("", NoRetry, "none", "none", "shell") >>) }

\* backoff_seconds values tried, in hundredths: 0.01, 0.5, 1.5, 2.
BackoffValues == {1, 50, 150, 200}

\* on_error and retry config of the single steps tried in full.
Policies ==
    { <<oe, rt>> : oe \in {"", "abort", "continue", "skip", "bogus"},
                   rt \in {NoRetry, RetryConfig(1)} }
    \cup { <<"retry", rt>> :
             rt \in {NoRetry} \cup { RetryConfig(n) : n \in 0..MaxRetriesBound } }
    \cup { <<"retry", RetryBackoff(MaxRetriesBound, b)>> : b \in BackoffValues }

\* Every combination of policy, condition, reference and connector.
RichTemplates ==
    { Tpl(p[1], p[2], wk, rk, c) :
        p \in Policies, wk \in {"none", "status", "false", "bad"},
        rk \in {"none", "prev", "self"}, c \in {"shell", "nope"} }

\* Children of the groups tried in full.
ChildTemplates ==
    { Tpl("", NoRetry, "none", "prev", "shell"),
      Tpl("retry", RetryConfig(1), "none", "sib", "shell"),
      Tpl("continue", NoRetry, "sibstatus", "none", "log"),
      Tpl("skip", NoRetry, "false", "none", "nope") }

\* Steps whose reference is nested in lists.
DeepTemplates ==
    { Tpl(oe, NoRetry, "none", rk, "shell") :
        oe \in {"", "continue"}, rk \in {"deepprev", "deepself"} }

RichGroups ==
    { Grp(oe, <<a, b>>) : oe \in {"", "abort", "continue", "skip", "retry"},
                          a \in ChildTemplates, b \in ChildTemplates }
    \cup { Grp(oe, <<Tpl("", NoRetry, "none", "prev", "shell"), b, c>>) :
              oe \in {"", "continue"},
              b \in { Tpl("retry", RetryConfig(1), "none", "sib", "shell"),
                      Tpl("continue", NoRetry, "sibstatus", "none", "log") },
              c \in { Tpl("", NoRetry, "none", "prev", "shell"),
                      Tpl("skip", NoRetry, "false", "none", "nope") } }

\* The step before and the step after a step or group tried in full: the
\* first never stops the flow, the second runs only if the one before it succeeded.
LeadTemplate == Tpl("skip", NoRetry, "none", "none", "shell")
ProbeTemplate == Tpl("", NoRetry, "status", "none", "log")

RECURSIVE SeqsUpTo(_, _)
SeqsUpTo(S, n) ==
    IF n = 0 THEN {<<>>}
    ELSE LET shorter == SeqsUpTo(S, n - 1)
         IN  shorter \cup { Append(q, x) : q \in shorter, x \in S }

\* The flows a run is drawn from.
Flows ==
    { BuildFlow(ts) : ts \in SeqsUpTo(CoreTemplates, MaxSteps) \ {<<>>} }
    \cup { BuildFlow(<<LeadTemplate, t, ProbeTemplate>>) :
             t \in RichTemplates \cup RichGroups \cup DeepTemplates }

\* The names of the steps of a flow that produce a record (group markers do
\* not), and the same names in declaration order.
RECURSIVE Flatten(_)
Flatten(f) ==
    IF f = <<>> THEN <<>>
    ELSE (IF Head(f).parallel # <<>>
          THEN [j \in 1..Len(Head(f).parallel) |-> Head(f).parallel[j].name]
          ELSE <<Head(f).name>>) \o Flatten(Tail(f))

StepNames(f) == { Flatten(f)[k] : k \in 1..Len(Flatten(f)) }

\* ------------------------------------------------------ expression resolver
\* AddStepResult with a slip: a skipped step is not added to the map.
AddStepResult_DropSkipped(steps, name, sr) ==
    IF sr.status = "skipped" THEN steps
    ELSE [n \in DOMAIN steps \cup {name} |-> IF n = name THEN sr ELSE steps[n]]

\* StepContext.AddStepResult: sc.Steps[name] = result.
AddStepResult(steps, name, sr) ==
    [n \in DOMAIN steps \cup {name} |-> IF n = name THEN sr ELSE steps[n]]

\* StepContext.resolvePath, case "steps": what a reference resolves to.  "ok"
\* stands for the value found; the others are the errors returned.
resolvePath(steps, r) ==
    IF r.field = "status"
    THEN IF r.step \in DOMAIN steps THEN "ok" ELSE "not_found"
    ELSE IF r.step \notin DOMAIN steps THEN "not_found"
         ELSE IF steps[r.step].output.isNil THEN "no_output"
         ELSE IF r.field \in steps[r.step].output.keys THEN "ok"
         ELSE "no_key"

\* StepContext.ResolveMap over a step's input: it fails when any reference
\* fails; res is what each referenced step resolved to.
ResolveMap(steps, refs) ==
    [err |-> \E r \in refs : resolvePath(steps, r) # "ok",
     res |-> { <<r.step, resolvePath(steps, r)>> : r \in refs }]

\* StepContext.EvaluateCondition: every result the evaluation can have.  The
\* empty condition is true; a malformed one is an error; a comparison of a
\* step's status compares the recorded status, and when the step has no
\* recorded result the evaluation does not yield true (it fails, or the missing
\* value compares unequal).
EvaluateCondition(steps, w) ==
    CASE w.kind = "none" -> { [err |-> FALSE, val |-> TRUE] }
      [] w.kind = "false" -> { [err |-> FALSE, val |-> FALSE] }
      [] w.kind = "status" ->
           IF w.step \in DOMAIN steps
           THEN { [err |-> FALSE, val |-> steps[w.step].status = w.lit] }
           ELSE { [err |-> TRUE, val |-> FALSE], [err |-> FALSE, val |-> FALSE] }
      [] OTHER -> { [err |-> TRUE, val |-> FALSE] }

\* --------------------------------------------------------------- validator
\* step.Name == "".
NoName == <<>>

\* The names of Connector.Actions() of the built-in connectors.
Actions(c) ==
    CASE c = "log" -> {"print"}
      [] c = "shell" -> {"run"}
      [] c = "http" -> {"request"}
      [] c = "webhook" -> {"trigger"}
      [] OTHER -> {}

\* One entry of ValidationError.Errors: which check failed, at which step
\* (its index and name), and the reference, if the issue is about one.
Issue(kind, i, n, r) == [kind |-> kind, at |-> i, step |-> n, ref |-> r]

NoRef == RefAt(NoName, "", <<>>)

\* ValidateFlow's stepNames map when the loop has gone through steps 1..i: the
\* steps without a name are passed over, a later step of the same name
\* overwrites the index.
stepNamesAt(steps, i) ==
    LET named == { k \in 1..i : steps[k].name # NoName }
    IN  [ n \in { steps[k].name : k \in named } |->
            CHOOSE k \in named :
                /\ steps[k].name = n
                /\ \A m \in named : steps[m].name = n => m <= k ]

\* validateStepRefs: whether the walk reaches a string under the containers
\* of chain.  A string is checked; a map is walked recursively; of a list only
\* the items that are strings are checked.
RECURSIVE Walked(_)
Walked(chain) ==
    IF chain = <<>> THEN TRUE
    ELSE IF Head(chain) = "map" THEN Walked(Tail(chain))
    ELSE Tail(chain) = <<>>

\* checkStringRefs for one steps.* expression of a string of step cur, at index i.
checkStringRefs(r, names, cur, i) ==
    IF r.step \notin DOMAIN names
    THEN { Issue("unknown_step", i, cur, r) }
    ELSE IF names[r.step] >= i
    THEN { Issue("not_executed_yet", i, cur, r) }
    ELSE {}

validateStepRefs(refs, names, cur, i) ==
    UNION { IF Walked(r.chain) THEN checkStringRefs(r, names, cur, i) ELSE {} :
            r \in refs }

\* ValidateFlow: the body of the loop for step i.
StepIssues(steps, i) ==
    LET step == steps[i]
        before == stepNamesAt(steps, i - 1)
        names == stepNamesAt(steps, i)
    IN  IF step.name = NoName
        THEN { Issue("name_required", i, NoName, NoRef) }
        ELSE (IF step.name \in DOMAIN before
              THEN { Issue("duplicate_name", i, step.name, NoRef) } ELSE {})
             \cup (IF step.connector = ""
                   THEN { Issue("connector_required", i, step.name, NoRef) }
                   ELSE IF step.connector \notin Registered
                   THEN { Issue("connector_not_found", i, step.name, NoRef) }
                   ELSE IF step.action # "" /\ step.action \notin Actions(step.connector)
                   THEN { Issue("action_not_supported", i, step.name, NoRef) }
                   ELSE {})
             \cup (IF step.onError \in {"", "abort", "continue", "skip"}
                   THEN {}
                   ELSE { Issue("invalid_on_error", i, step.name, NoRef) })
             \cup validateStepRefs(step.refs, names, step.name, i)

\* ValidateFlow: the issues collected for flow f (its name and its steps); the
\* error returned is nil when there is none.
ValidateFlow(f) ==
    (IF f.name = "" THEN { Issue("flow_name_required", 0, NoName, NoRef) } ELSE {})
    \cup (IF f.steps = <<>> THEN { Issue("no_steps", 0, NoName, NoRef) } ELSE {})
    \cup UNION { StepIssues(f.steps, i) : i \in 1..Len(f.steps) }

\* FlowDef.Input: nil, or a schema whose properties map gives each property
\* its FieldDef.
NoSchema == [isNil |-> TRUE, props |-> <<>>]
SchemaDef(props) == [isNil |-> FALSE, props |-> props]
FieldDef(t, req) == [type |-> t, required |-> req]

\* ValidateInput with a slip: a key whose value is null counts as missing.
ValidateInput_NullIsMissing(schema, input) ==
    IF schema.isNil THEN {}
    ELSE { n \in DOMAIN schema.props :
             /\ schema.props[n].required
             /\ (n \notin DOMAIN input \/ input[n] = "null") }

\* ValidateInput: the required fields reported missing; the error returned is
\* nil when there is none.
ValidateInput(schema, input) ==
    IF schema.isNil THEN {}
    ELSE { n \in DOMAIN schema.props :
             schema.props[n].required /\ n \notin DOMAIN input }

\* ------------------------------------------------------------------ engine
\* FlowResult.Error == ""
NoError == <<>>

\* fmt.Sprintf("step %q failed: %s", sr.Name, sr.Error)
FlowError(sr) == <<"step", sr.name, "failed", sr.error>>

\* handleStepError with a slip: abort marks the flow failed but does not stop.
handleStepError_AbortGoesOn(sr, onError, res) ==
    IF sr.status # "failed" /\ sr.status # "error"
    THEN [failed |-> FALSE, result |-> res]
    ELSE LET oe == IF onError = "" THEN "abort" ELSE onError
         IN  CASE oe = "abort" ->
                    [failed |-> FALSE,
                     result |-> [res EXCEPT !.status = "failed",
                                            !.error = FlowError(sr)]]
               [] oe = "continue" ->
                    [failed |-> FALSE,
                     result |-> [res EXCEPT !.status = "partial"]]
               [] OTHER -> [failed |-> FALSE, result |-> res]

\* handleStepError with a slip: a step that did not fail resets the status.
handleStepError_SuccessResets(sr, onError, res) ==
    IF sr.status # "failed" /\ sr.status # "error"
    THEN [failed |-> FALSE, result |-> [res EXCEPT !.status = "success"]]
    ELSE LET oe == IF onError = "" THEN "abort" ELSE onError
         IN  CASE oe = "abort" ->
                    [failed |-> TRUE,
                     result |-> [res EXCEPT !.status = "failed",
                                            !.error = FlowError(sr)]]
               [] oe = "continue" ->
                    [failed |-> FALSE,
                     result |-> [res EXCEPT !.status = "partial"]]
               [] OTHER -> [failed |-> FALSE, result |-> res]

\* handleStepError with a slip: skip is handled like continue.
handleStepError_SkipPartial(sr, onError, res) ==
    IF sr.status # "failed" /\ sr.status # "error"
    THEN [failed |-> FALSE, result |-> res]
    ELSE LET oe == IF onError = "" THEN "abort" ELSE onError
         IN  CASE oe = "abort" ->
                    [failed |-> TRUE,
                     result |-> [res EXCEPT !.status = "failed",
                                            !.error = FlowError(sr)]]
               [] oe \in {"continue", "skip"} ->
                    [failed |-> FALSE,
                     result |-> [res EXCEPT !.status = "partial"]]
               [] OTHER -> [failed |-> FALSE, result |-> res]

\* handleStepError with a slip: the empty on_error is not taken as abort.
handleStepError_NoDefault(sr, onError, res) ==
    IF sr.status # "failed" /\ sr.status # "error"
    THEN [failed |-> FALSE, result |-> res]
    ELSE CASE onError = "abort" ->
                [failed |-> TRUE,
                 result |-> [res EXCEPT !.status = "failed",
                                        !.error = FlowError(sr)]]
           [] onError = "continue" ->
                [failed |-> FALSE,
                 result |-> [res EXCEPT !.status = "partial"]]
           [] OTHER -> [failed |-> FALSE, result |-> res]

\* Engine.handleStepError: the flow result after the policy is applied, and
\* whether the flow must stop.
handleStepError(sr, onError, res) ==
    IF sr.status # "failed" /\ sr.status # "error"
    THEN [failed |-> FALSE, result |-> res]
    ELSE LET oe == IF onError = "" THEN "abort" ELSE onError
         IN  CASE oe = "abort" ->
                    [failed |-> TRUE,
                     result |-> [res EXCEPT !.status = "failed",
                                            !.error = FlowError(sr)]]
               [] oe = "continue" ->
                    [failed |-> FALSE,
                     result |-> [res EXCEPT !.status = "partial"]]
               [] OTHER -> [failed |-> FALSE, result |-> res]

\* executeStep with a slip: an input that does not resolve is passed on to the
\* connector.
executeStep_ExecutesUnresolved(step, steps) ==
    LET rm == ResolveMap(steps, step.refs)
        sr(st, err, out) == StepResult(step.name, st, err, out, 0)
    IN  IF step.connector \notin Registered
        THEN { [sr |-> sr("error", "connector not found", NilOutput),
                executed |-> FALSE, resolved |-> FALSE, res |-> {}] }
        ELSE { [sr |-> IF o = "error"
                       THEN sr("error", "execute error", NilOutput)
                       ELSE sr(o, "", ExecuteOutput(step.connector)),
                executed |-> TRUE, resolved |-> TRUE, res |-> rm.res] :
               o \in ExecuteOutcomes(step.connector) }

\* Engine.executeStep: every result one call can have, with whether the
\* connector's Execute was invoked and what the input's references resolved to
\* (empty when the input was not resolved).
executeStep(step, steps) ==
    LET rm == ResolveMap(steps, step.refs)
        sr(st, err, out) == StepResult(step.name, st, err, out, 0)
    IN  IF step.connector \notin Registered
        THEN { [sr |-> sr("error", "connector not found", NilOutput),
                executed |-> FALSE, resolved |-> FALSE, res |-> {}] }
        ELSE IF rm.err
        THEN { [sr |-> sr("error", "resolving input", NilOutput),
                executed |-> FALSE, resolved |-> TRUE, res |-> rm.res] }
        ELSE { [sr |-> IF o = "error"
                       THEN sr("error", "execute error", NilOutput)
                       ELSE sr(o, "", ExecuteOutput(step.connector)),
                executed |-> TRUE, resolved |-> TRUE, res |-> rm.res] :
               o \in ExecuteOutcomes(step.connector) }

\* executeStepWithRetry: whether the step has a retry loop, and how many
\* iterations it has at most.
HasRetryLoop(step) == step.retry.present /\ step.onError = "retry"

maxRetries(step) ==
    IF step.retry.MaxRetries <= 0 THEN DefaultMaxRetries
    ELSE step.retry.MaxRetries

RECURSIVE Pow2(_)
Pow2(k) == IF k = 0 THEN 1 ELSE 2 * Pow2(k - 1)

\* executeStepWithRetry: the backoff in hundredths of a second, 1.0 when the
\* configured value is not positive.
backoff(step) ==
    IF step.retry.BackoffSeconds <= 0 THEN 100 ELSE step.retry.BackoffSeconds

\* executeStepWithRetry: the sleep before retry attempt, in hundredths of a
\* second.  time.Duration(f) cuts the float64 product, a number of seconds,
\* down to a whole number before it is multiplied by time.Second.
sleepDuration(step, attempt) ==
    ((backoff(step) * Pow2(attempt - 1)) \div 100) * 100

\* AfterAttempt with a slip: the loop runs one iteration more.
AfterAttempt_OneMore(step, sr, attempt) ==
    IF step.retry.present /\ step.onError = "retry"
       /\ attempt <= maxRetries(step) + 1
       /\ sr.status \in {"failed", "error"}
    THEN "backoff" ELSE "done"

\* executeStepWithRetry: where a call stands after an executeStep whose result
\* is sr, the loop about to start iteration attempt.
AfterAttempt(step, sr, attempt) ==
    IF HasRetryLoop(step) /\ attempt <= maxRetries(step)
       /\ sr.status \in {"failed", "error"}
    THEN "backoff" ELSE "done"

\* ---------------------------------------------------------------- registry
\* A Connector: its Name() and which implementation it is.
Builtin(n) == [name |-> n, impl |-> <<"builtin", 0>>]
Plugin(n, k) == [name |-> n, impl |-> <<"plugin", k>>]

\* sync.RWMutex: the thread that holds the write lock (0 when none does) and
\* the threads that hold the read lock.
FreeLock == [w |-> 0, r |-> {}]

\* NewRegistry(): no connectors.
NewRegistry == [connectors |-> [n \in {} |-> Builtin(n)], mu |-> FreeLock]

\* defaultRegistry() after the built-ins are registered.
DefaultRegistry ==
    [connectors |-> [n \in Registered |-> Builtin(n)], mu |-> FreeLock]

\* No thread but the run's own is modelled.
NoThreads == <<>>

VARIABLES
    flow,       \* flow.Steps of the flow being run
    pc,         \* runWithContext: "loop", "exec", "join" or "done"
    idx,        \* the index of the step of flow.Steps being processed
    mergeIdx,   \* the index of the sibling result the main thread merges next
    result,     \* the FlowResult
    sctx,       \* StepContext.Steps: step name -> StepResult
    procs,      \* the running calls of executeStepWithRetry: 0 is the main
                \* thread's, 1..n are the workers of the parallel group
    results,    \* executeParallel's preallocated results array
    cancelled,  \* ctx.Done() is closed
    hist,       \* per step: what its evaluations and attempts saw and did
    call,       \* the call made from outside a run, with its arguments
    ret,        \* what that call returned
    engine,     \* the Engine's Registry: its connectors and its lock
    threads     \* the threads that use the Engine at the same time

vars == <<flow, pc, idx, mergeIdx, result, sctx, procs, results, cancelled, hist,
          call, ret, engine, threads>>

\* No call from outside is modelled, or it has not returned.
NoCall == [op |-> "none"]
NoRet == [op |-> "none"]

\* A call of executeStepWithRetry (a worker also evaluates the condition).
\* late notes whether the context was already done when the call was made;
\* doneAtSelect whether it was done when the select of the backoff was reached.
Proc(step, phase) ==
    [step |-> step, phase |-> phase, sr |-> ZeroResult, attempt |-> 0,
     late |-> cancelled, doneAtSelect |-> FALSE]

\* Both cases of the select of the backoff were ready when call p reached it:
\* the context was done and there is nothing to sleep.
BothReady(p) ==
    procs[p].doneAtSelect /\ sleepDuration(procs[p].step, procs[p].attempt) = 0

NoProcs == [p \in {} |-> Proc(StepDef(<<0, 0>>, "", "", NoRetry, NoWhen, {}, <<>>), "done")]

\* Engine.Run, after ValidateInput: a fresh FlowResult and StepContext.
Init ==
    /\ flow \in Flows
    /\ pc = "loop"
    /\ idx = 1
    /\ mergeIdx = 1
    /\ result = [status |-> "success", error |-> NoError, steps |-> <<>>,
                 completed |-> FALSE]
    /\ sctx = [n \in {} |-> ZeroResult]
    /\ procs = NoProcs
    /\ results = <<>>
    /\ cancelled = FALSE
    /\ hist = [n \in StepNames(flow) |-> [whens |-> <<>>, attempts |-> <<>>, waits |-> <<>>]]
    /\ engine = DefaultRegistry
    /\ threads = NoThreads
    /\ call = NoCall
    /\ ret = NoRet

NoteWhen(n, ec) ==
    [hist EXCEPT ![n].whens =
        Append(@, IF ec.err THEN "error" ELSE IF ec.val THEN "true" ELSE "false")]

NoteAttempt(n, o) ==
    [hist EXCEPT ![n].attempts =
        Append(@, [status |-> o.sr.status, executed |-> o.executed,
                   resolved |-> o.resolved, res |-> o.res])]

\* Record with a slip: the record is appended twice.
Record_Twice(sr, onError, next, nextMerge) ==
    LET h == handleStepError(sr, onError,
                             [result EXCEPT !.steps = Append(Append(@, sr), sr)])
    IN  /\ sctx' = AddStepResult(sctx, sr.name, sr)
        /\ IF h.failed
           THEN /\ result' = [h.result EXCEPT !.completed = TRUE]
                /\ pc' = "done"
                /\ UNCHANGED <<idx, mergeIdx>>
           ELSE /\ result' = h.result
                /\ pc' = IF nextMerge = 1 THEN "loop" ELSE "join"
                /\ idx' = next
                /\ mergeIdx' = nextMerge

\* runWithContext: append the record, add it to the context, apply the policy;
\* then return (the flow is aborted) or go on at top-level step next, sibling
\* result nextMerge.
Record(sr, onError, next, nextMerge) ==
    LET h == handleStepError(sr, onError,
                             [result EXCEPT !.steps = Append(@, sr)])
    IN  /\ sctx' = AddStepResult(sctx, sr.name, sr)
        /\ IF h.failed
           THEN /\ result' = [h.result EXCEPT !.completed = TRUE]
                /\ pc' = "done"
                /\ UNCHANGED <<idx, mergeIdx>>
           ELSE /\ result' = h.result
                /\ pc' = IF nextMerge = 1 THEN "loop" ELSE "join"
                /\ idx' = next
                /\ mergeIdx' = nextMerge

\* BeginStep with a slip: a condition that is false does not skip the step.
BeginStep_FalseRuns ==
    /\ pc = "loop" /\ idx <= Len(flow) /\ flow[idx].parallel = <<>>
    /\ \E ec \in EvaluateCondition(sctx, flow[idx].when) :
       LET step == flow[idx]
       IN  /\ hist' = IF step.when.kind = "none" THEN hist
                      ELSE NoteWhen(step.name, ec)
           /\ IF ec.err
              THEN /\ Record(StepResult(step.name, "error", "evaluating condition",
                                        NilOutput, 0),
                             step.onError, idx + 1, 1)
                   /\ UNCHANGED procs
              ELSE /\ procs' = [p \in {0} |-> Proc(step, "first")]
                   /\ pc' = "exec"
                   /\ UNCHANGED <<idx, mergeIdx, result, sctx>>
    /\ UNCHANGED <<flow, results, cancelled, call, ret, engine, threads>>

\* runWithContext, an ordinary step: evaluate its condition; record an error
\* or a skip, or start executeStepWithRetry.
BeginStep ==
    /\ pc = "loop" /\ idx <= Len(flow) /\ flow[idx].parallel = <<>>
    /\ \E ec \in EvaluateCondition(sctx, flow[idx].when) :
       LET step == flow[idx]
       IN  /\ hist' = IF step.when.kind = "none" THEN hist
                      ELSE NoteWhen(step.name, ec)
           /\ IF ec.err
              THEN /\ Record(StepResult(step.name, "error", "evaluating condition",
                                        NilOutput, 0),
                             step.onError, idx + 1, 1)
                   /\ UNCHANGED procs
              ELSE IF ~ec.val
              THEN /\ result' = [result EXCEPT !.steps =
                        Append(@, StepResult(step.name, "skipped", "", NilOutput, 0))]
                   /\ sctx' = AddStepResult(sctx, step.name,
                        StepResult(step.name, "skipped", "", NilOutput, 0))
                   /\ idx' = idx + 1
                   /\ UNCHANGED <<pc, mergeIdx, procs>>
              ELSE /\ procs' = [p \in {0} |-> Proc(step, "first")]
                   /\ pc' = "exec"
                   /\ UNCHANGED <<idx, mergeIdx, result, sctx>>
    /\ UNCHANGED <<flow, results, cancelled, call, ret, engine, threads>>

\* Returned with a slip: every worker writes the first slot.
Returned_FirstSlot(p, sr) ==
    IF p = 0 THEN results' = results ELSE results' = [results EXCEPT ![1] = sr]

\* executeStepWithRetry returns: results[idx] = sr in a worker.
Returned(p, sr) ==
    IF p = 0 THEN results' = results ELSE results' = [results EXCEPT ![p] = sr]

\* executeStepWithRetry: the first executeStep.
FirstAttempt(p) ==
    /\ p \in DOMAIN procs /\ procs[p].phase = "first"
    /\ \E o \in executeStep(procs[p].step, sctx) :
         LET ph == AfterAttempt(procs[p].step, o.sr, 1)
         IN  /\ procs' = [procs EXCEPT ![p].sr = o.sr, ![p].attempt = 1,
                                       ![p].phase = ph,
                                       ![p].doneAtSelect =
                                           (ph = "backoff" /\ cancelled)]
             /\ hist' = NoteAttempt(procs[p].step.name, o)
             /\ IF ph = "done" THEN Returned(p, o.sr) ELSE results' = results
    /\ UNCHANGED <<flow, pc, idx, mergeIdx, result, sctx, cancelled, call, ret, engine, threads>>

NoteWait(n, d) == [hist EXCEPT ![n].waits = Append(@, d)]

\* Backoff with a slip: the timer can fire although the context is done.
Backoff_IgnoresDone(p) ==
    /\ p \in DOMAIN procs /\ procs[p].phase = "backoff"
    /\ \/ /\ procs' = [procs EXCEPT ![p].phase = "retry"]
          /\ hist' = NoteWait(procs[p].step.name,
                              sleepDuration(procs[p].step, procs[p].attempt))
          /\ results' = results
       \/ /\ cancelled
          /\ LET sr == [procs[p].sr EXCEPT !.status = "error",
                           !.error = "context cancelled during retry",
                           !.retries = procs[p].attempt]
             IN  /\ procs' = [procs EXCEPT ![p].sr = sr, ![p].phase = "done"]
                 /\ Returned(p, sr)
          /\ hist' = hist
    /\ UNCHANGED <<flow, pc, idx, mergeIdx, result, sctx, cancelled, call, ret, engine, threads>>

\* executeStepWithRetry: the select of the backoff.  The timer fires after
\* sleepDuration if the context is not done by then; the call returns once the
\* context is done.  When both cases were ready as the select was reached, it
\* takes either.
Backoff(p) ==
    /\ p \in DOMAIN procs /\ procs[p].phase = "backoff"
    /\ \/ /\ ~cancelled \/ BothReady(p)
          /\ procs' = [procs EXCEPT ![p].phase = "retry"]
          /\ hist' = NoteWait(procs[p].step.name,
                              sleepDuration(procs[p].step, procs[p].attempt))
          /\ results' = results
       \/ /\ cancelled
          /\ LET sr == [procs[p].sr EXCEPT !.status = "error",
                           !.error = "context cancelled during retry",
                           !.retries = procs[p].attempt]
             IN  /\ procs' = [procs EXCEPT ![p].sr = sr, ![p].phase = "done"]
                 /\ Returned(p, sr)
          /\ hist' = hist
    /\ UNCHANGED <<flow, pc, idx, mergeIdx, result, sctx, cancelled, call, ret, engine, threads>>

\* executeStepWithRetry: the executeStep of a loop iteration.
RetryAttempt(p) ==
    /\ p \in DOMAIN procs /\ procs[p].phase = "retry"
    /\ \E o \in executeStep(procs[p].step, sctx) :
         LET sr == [o.sr EXCEPT !.retries = procs[p].attempt]
             ph == AfterAttempt(procs[p].step, sr, procs[p].attempt + 1)
         IN  /\ procs' = [procs EXCEPT ![p].sr = sr, ![p].attempt = @ + 1,
                                       ![p].phase = ph,
                                       ![p].doneAtSelect =
                                           (ph = "backoff" /\ cancelled)]
             /\ hist' = NoteAttempt(procs[p].step.name, o)
             /\ IF ph = "done" THEN Returned(p, sr) ELSE results' = results
    /\ UNCHANGED <<flow, pc, idx, mergeIdx, result, sctx, cancelled, call, ret, engine, threads>>

\* runWithContext, an ordinary step: executeStepWithRetry has returned.
RecordStep ==
    /\ pc = "exec" /\ procs[0].phase = "done"
    /\ Record(procs[0].sr, flow[idx].onError, idx + 1, 1)
    /\ procs' = NoProcs
    /\ UNCHANGED <<flow, results, cancelled, hist, call, ret, engine, threads>>

\* executeParallel: allocate the results array and start one worker per child.
Launch ==
    /\ pc = "loop" /\ idx <= Len(flow) /\ flow[idx].parallel # <<>>
    /\ LET ch == flow[idx].parallel
       IN  /\ results' = [k \in 1..Len(ch) |-> ZeroResult]
           /\ procs' = [k \in 1..Len(ch) |->
                          Proc(ch[k], IF ch[k].when.kind = "none"
                                      THEN "first" ELSE "when")]
    /\ pc' = "join"
    /\ mergeIdx' = 1
    /\ UNCHANGED <<flow, idx, result, sctx, cancelled, hist, call, ret, engine, threads>>

\* executeParallel, a worker: evaluate the child's condition.
WorkerWhen(p) ==
    /\ p \in DOMAIN procs /\ procs[p].phase = "when"
    /\ \E ec \in EvaluateCondition(sctx, procs[p].step.when) :
       LET step == procs[p].step
           sr == IF ec.err
                 THEN StepResult(step.name, "error", "evaluating condition",
                                 NilOutput, 0)
                 ELSE StepResult(step.name, "skipped", "", NilOutput, 0)
       IN  /\ hist' = NoteWhen(step.name, ec)
           /\ IF ec.err \/ ~ec.val
              THEN /\ procs' = [procs EXCEPT ![p].sr = sr, ![p].phase = "done"]
                   /\ results' = [results EXCEPT ![p] = sr]
              ELSE /\ procs' = [procs EXCEPT ![p].phase = "first"]
                   /\ results' = results
    /\ UNCHANGED <<flow, pc, idx, mergeIdx, result, sctx, cancelled, call, ret, engine, threads>>

\* Merge with a slip: the main thread does not wait for the workers.
Merge_NoWait ==
    /\ pc = "join"
    /\ IF mergeIdx = Len(results)
       THEN Record(results[mergeIdx], flow[idx].onError, idx + 1, 1)
       ELSE Record(results[mergeIdx], flow[idx].onError, idx, mergeIdx + 1)
    /\ UNCHANGED <<flow, procs, results, cancelled, hist, call, ret, engine, threads>>

\* Merge with a slip: the child's own on_error is applied.
Merge_ChildPolicy ==
    /\ pc = "join"
    /\ \A p \in DOMAIN procs : procs[p].phase = "done"
    /\ IF mergeIdx = Len(results)
       THEN Record(results[mergeIdx], flow[idx].parallel[mergeIdx].onError,
                   idx + 1, 1)
       ELSE Record(results[mergeIdx], flow[idx].parallel[mergeIdx].onError,
                   idx, mergeIdx + 1)
    /\ UNCHANGED <<flow, procs, results, cancelled, hist, call, ret, engine, threads>>

\* runWithContext after wg.Wait(): one iteration of the loop over results.
Merge ==
    /\ pc = "join"
    /\ \A p \in DOMAIN procs : procs[p].phase = "done"
    /\ IF mergeIdx = Len(results)
       THEN Record(results[mergeIdx], flow[idx].onError, idx + 1, 1)
       ELSE Record(results[mergeIdx], flow[idx].onError, idx, mergeIdx + 1)
    /\ UNCHANGED <<flow, procs, results, cancelled, hist, call, ret, engine, threads>>

\* Finish with a slip: the result is completed, but Run does not return.
Finish_NoReturn ==
    /\ pc = "loop" /\ idx > Len(flow)
    /\ result' = [result EXCEPT !.completed = TRUE]
    /\ UNCHANGED <<flow, pc, idx, mergeIdx, sctx, procs, results, cancelled, hist, call, ret, engine, threads>>

\* runWithContext: the loop is over; return the result.
Finish ==
    /\ pc = "loop" /\ idx > Len(flow)
    /\ result' = [result EXCEPT !.completed = TRUE]
    /\ pc' = "done"
    /\ UNCHANGED <<flow, idx, mergeIdx, sctx, procs, results, cancelled, hist, call, ret, engine, threads>>

\* The caller cancels the run's context.  The webhook handler and the tool
\* server run flows under context.Background(), which is never done.
Cancel ==
    /\ pc # "done" /\ ~cancelled
    /\ call.op \notin {"handleTrigger", "callTool"}
    /\ cancelled' = TRUE
    /\ UNCHANGED <<flow, pc, idx, mergeIdx, result, sctx, procs, results, hist, call, ret, engine, threads>>

Next ==
    \/ BeginStep
    \/ RecordStep
    \/ Launch
    \/ Merge
    \/ Finish
    \/ Cancel
    \/ \E p \in DOMAIN procs : FirstAttempt(p)
    \/ \E p \in DOMAIN procs : Backoff(p)
    \/ \E p \in DOMAIN procs : RetryAttempt(p)
    \/ \E p \in DOMAIN procs : WorkerWhen(p)

Spec == Init /\ [][Next]_vars

\* The steps of the engine: every step but the caller's Cancel.
EngineStep ==
    \/ BeginStep
    \/ RecordStep
    \/ Launch
    \/ Merge
    \/ Finish
    \/ \E p \in DOMAIN procs :
          FirstAttempt(p) \/ Backoff(p) \/ RetryAttempt(p) \/ WorkerWhen(p)

\* A run whose goroutines keep being scheduled, whose connectors' Execute
\* calls return and whose timers fire: the engine takes a step whenever it
\* has one to take.  Nothing makes the caller cancel.
SpecLive == Init /\ [][Next]_vars /\ WF_vars(EngineStep)

\* ------------------------------------------------- calls of the validator
\* The engine's variables when no run is modelled.
NoRun ==
    /\ flow = <<>>
    /\ pc = "none"
    /\ idx = 0
    /\ mergeIdx = 0
    /\ result = [status |-> "", error |-> NoError, steps |-> <<>>,
                 completed |-> FALSE]
    /\ sctx = [n \in {} |-> ZeroResult]
    /\ procs = NoProcs
    /\ results = <<>>
    /\ cancelled = FALSE
    /\ hist = [n \in {} |-> [whens |-> <<>>, attempts |-> <<>>, waits |-> <<>>]]
    /\ engine = DefaultRegistry
    /\ threads = NoThreads

\* The nestings of containers tried.
Chains == SeqsUpTo({"map", "list"}, MaxDepth)

\* A step at place i that passes every check, and the children of a group at
\* place i, the second with the given references.
VStep(i) == StepDef(NameOf(i, 0), "log", "", NoRetry, NoWhen, {}, <<>>)

VGroup(i, oe, rs) ==
    StepDef(NameOf(i, 0), "", oe, NoRetry, NoWhen, {},
            << StepDef(NameOf(i, 1), "log", "", NoRetry, NoWhen, {}, <<>>),
               StepDef(NameOf(i, 2), "log", "", NoRetry, NoWhen, rs, <<>>) >>)

\* The steps every place of a flow given to the validator is drawn from.
VCore(i) ==
    { VStep(i),
      [VStep(i) EXCEPT !.name = NoName],
      VGroup(i, "continue", {}) }

\* The names a reference of a flow of n places may mention: the steps, the
\* children of groups, and a name no step has.
VTargets(n) ==
    { NameOf(j, k) : j \in 1..n, k \in 0..1 } \cup { NameOf(0, 0) }

\* The steps one place of the flow is drawn from: every on_error with every
\* retry config, connectors and actions, a name used before, no name together
\* with another fault, one reference to
\* every name at every nesting, two references, groups.
VSweep(i, n) ==
    VCore(i)
    \cup { [VStep(i) EXCEPT !.onError = oe, !.retry = rt] :
             oe \in {"", "abort", "continue", "skip", "retry", "bogus"},
             rt \in {NoRetry} \cup { RetryConfig(m) : m \in 0..MaxRetriesBound } }
    \cup { [VStep(i) EXCEPT !.connector = c, !.action = a] :
             c \in {"", "nope", "log", "shell"}, a \in {"", "print", "bogus"} }
    \cup { [VStep(i) EXCEPT !.name = NameOf(1, 0)] }
    \cup { [VStep(i) EXCEPT !.name = NoName, !.connector = c, !.onError = oe] :
             c \in {"log", "", "nope"}, oe \in {"", "bogus"} }
    \cup { [VStep(i) EXCEPT !.refs = {RefAt(t, f, ch)}] :
             t \in VTargets(n), f \in {"status", "message"}, ch \in Chains }
    \cup { [VStep(i) EXCEPT !.refs = {RefAt(t, "message", <<>>),
                                      RefAt(u, "message", <<"map">>)}] :
             t \in VTargets(n), u \in VTargets(n) }
    \cup { VGroup(i, oe, rs) :
             oe \in {"", "continue"},
             rs \in { {}, {Ref(NameOf(i, 1), "message")},
                      {Ref(NameOf(i, 2), "message")},
                      {Ref(NameOf(i - 1, 0), "message")} } }

\* The lists of n steps whose every place is drawn from VCore.
RECURSIVE VCoreSeqs(_)
VCoreSeqs(n) ==
    IF n = 0 THEN { <<>> }
    ELSE { Append(q, x) : q \in VCoreSeqs(n - 1), x \in VCore(n) }

\* The lists of steps given to the validator: one place is swept.
VStepsOf(n) ==
    UNION { { [c EXCEPT ![i] = x] : x \in VSweep(i, n), c \in VCoreSeqs(n) } :
            i \in 1..n }

\* The lists of at most m steps, and the flows made of them.
VSteps(m) == UNION { VStepsOf(n) : n \in 1..m }

VFlows(m) ==
    { [name |-> nm, steps |-> q] : nm \in {"", "f"}, q \in VSteps(m) \cup {<<>>} }

InitValidate ==
    /\ NoRun
    /\ call \in { [op |-> "ValidateFlow", flow |-> f] : f \in VFlows(MaxSteps) }
    /\ ret = NoRet

\* ValidateFlow(flow, registry) is called and returns.
CallValidateFlow ==
    /\ call.op = "ValidateFlow" /\ ret = NoRet
    /\ ret' = [op |-> "ValidateFlow", issues |-> ValidateFlow(call.flow)]
    /\ UNCHANGED <<flow, pc, idx, mergeIdx, result, sctx, procs, results,
                   cancelled, hist, call,
                   engine, threads>>

SpecValidate == InitValidate /\ [][CallValidateFlow]_vars

\* ------------------------------------------------------- calls of Run
\* The flows run through an entry point: the one-step flows of the core
\* catalogue, and one-step flows with an on_error that does not exist, a
\* reference of a step to itself, and a connector that is not registered.
EntryFlows ==
    { BuildFlow(<<t>>) :
        t \in CoreTemplates
              \cup { Tpl("bogus", NoRetry, "none", "none", "shell"),
                     Tpl("", NoRetry, "none", "self", "shell"),
                     Tpl("", NoRetry, "none", "none", "nope") } }

\* The input schemas and the input maps tried: properties a and b, keys a and
\* x, values of several types and null.
Schemas ==
    { NoSchema }
    \cup { SchemaDef(ps) :
             ps \in UNION { [P -> { FieldDef("string", r) : r \in BOOLEAN }] :
                             P \in SUBSET {"a", "b"} } }

Inputs ==
    UNION { [K -> {"null", "text", "number"}] : K \in SUBSET {"a", "x"} }

\* Who calls Run or RunWithSecrets: a caller of the engine's API with a
\* context of its own, the webhook handler, the tool server.
EntryPoints == {"Run", "RunWithSecrets", "handleTrigger", "callTool"}

InitEntry ==
    /\ flow \in EntryFlows
    /\ pc = "call"
    /\ idx = 1
    /\ mergeIdx = 1
    /\ result = [status |-> "", error |-> NoError, steps |-> <<>>,
                 completed |-> FALSE]
    /\ sctx = [n \in {} |-> ZeroResult]
    /\ procs = NoProcs
    /\ results = <<>>
    /\ cancelled = FALSE
    /\ hist = [n \in StepNames(flow) |-> [whens |-> <<>>, attempts |-> <<>>, waits |-> <<>>]]
    /\ engine = DefaultRegistry
    /\ threads = NoThreads
    /\ call \in { [op |-> e, schema |-> sc, input |-> in] :
                     e \in EntryPoints, sc \in Schemas, in \in Inputs }
    /\ ret = NoRet

\* Engine.Run and Engine.RunWithSecrets up to the call of runWithContext:
\* return ValidateInput's error and no result, or make the FlowResult and the
\* StepContext.  The handlers pass the flow they looked up straight to Run.
CallRun ==
    /\ pc = "call"
    /\ IF ValidateInput(call.schema, call.input) # {}
       THEN /\ ret' = [op |-> call.op, err |-> TRUE,
                       missing |-> ValidateInput(call.schema, call.input)]
            /\ pc' = "done"
            /\ UNCHANGED result
       ELSE /\ result' = [status |-> "success", error |-> NoError,
                          steps |-> <<>>, completed |-> FALSE]
            /\ pc' = "loop"
            /\ UNCHANGED ret
    /\ UNCHANGED <<flow, idx, mergeIdx, sctx, procs, results, cancelled, hist,
                   call,
                   engine, threads>>

NextEntry == CallRun \/ Next

SpecEntry == InitEntry /\ [][NextEntry]_vars

\* ------------------------------------------------------------------ DryRun
\* The steps place i of a flow given to DryRun is drawn from: a plain step;
\* steps that read the status or the output of the step before; a step with a
\* condition; a step with a reference, inside a map inside a list, to the step
\* after; a group whose marker names a connector and whose second child reads
\* the first; a group whose marker names none; a step with on_error retry; a
\* flow step.
DrySteps(i) ==
    { StepDef(NameOf(i, 0), "log", "", NoRetry, NoWhen, {}, <<>>),
      StepDef(NameOf(i, 0), "shell", "continue", NoRetry, NoWhen,
              {Ref(NameOf(i - 1, 0), "status")}, <<>>),
      StepDef(NameOf(i, 0), "shell", "", NoRetry, NoWhen,
              {Ref(NameOf(i - 1, 0), "stdout")}, <<>>),
      StepDef(NameOf(i, 0), "log", "skip", NoRetry,
              WhenStatus(NameOf(i - 1, 0), "success"), {}, <<>>),
      StepDef(NameOf(i, 0), "log", "", NoRetry, NoWhen,
              {RefAt(NameOf(i + 1, 0), "status", <<"list", "map">>)}, <<>>),
      StepDef(NameOf(i, 0), "log", "", NoRetry, NoWhen, {},
              << StepDef(NameOf(i, 1), "log", "", NoRetry, NoWhen, {}, <<>>),
                 StepDef(NameOf(i, 2), "shell", "", NoRetry, NoWhen,
                         {Ref(NameOf(i, 1), "status")}, <<>>) >>),
      VGroup(i, "", {}),
      StepDef(NameOf(i, 0), "log", "retry", RetryConfig(1), NoWhen, {}, <<>>),
      StepDef(NameOf(i, 0), "flow", "", NoRetry, NoWhen, {}, <<>>) }

\* The lists of n steps, and the lists of at most m steps.
RECURSIVE DrySeqs(_)
DrySeqs(n) ==
    IF n = 0 THEN { <<>> }
    ELSE { Append(q, x) : q \in DrySeqs(n - 1), x \in DrySteps(n) }

DryFlows(m) == UNION { DrySeqs(n) : n \in 0..m }

\* DryRun is called with a flow and an input.
InitDryRun ==
    /\ flow \in DryFlows(MaxSteps)
    /\ pc = "call"
    /\ idx = 1
    /\ mergeIdx = 1
    /\ result = [status |-> "", error |-> NoError, steps |-> <<>>,
                 completed |-> FALSE]
    /\ sctx = [n \in {} |-> ZeroResult]
    /\ procs = NoProcs
    /\ results = <<>>
    /\ cancelled = FALSE
    /\ hist = [n \in StepNames(flow) |-> [whens |-> <<>>, attempts |-> <<>>, waits |-> <<>>]]
    /\ engine = DefaultRegistry
    /\ threads = NoThreads
    /\ call \in { [op |-> "DryRun", name |-> "f", schema |-> sc,
                   input |-> in] :
                     sc \in { NoSchema,
                              SchemaDef("a" :> FieldDef("string", TRUE)) },
                     in \in { [k \in {} |-> "text"], [k \in {"a"} |-> "text"] } }
    /\ ret = NoRet

\* Engine.DryRun up to its loop: ValidateFlow's or ValidateInput's error and
\* no result, or the FlowResult with status dry_run and the StepContext.
CallDryRun ==
    /\ call.op = "DryRun" /\ pc = "call"
    /\ IF \/ ValidateFlow([name |-> call.name, steps |-> flow]) # {}
          \/ ValidateInput(call.schema, call.input) # {}
       THEN /\ ret' = [op |-> "DryRun", err |-> TRUE]
            /\ pc' = "done"
            /\ UNCHANGED result
       ELSE /\ result' = [status |-> "dry_run", error |-> NoError,
                          steps |-> <<>>, completed |-> FALSE]
            /\ pc' = "dry"
            /\ UNCHANGED ret
    /\ UNCHANGED <<flow, idx, mergeIdx, sctx, procs, results, cancelled, hist,
                   call,
                   engine, threads>>

\* DryRun's list for a step with a slip: a group is not replaced.
DryList_KeepsMarker(step) == <<step>>

\* DryRun's list for a step: the step, or the children of a group.
DryList(step) == IF Len(step.parallel) > 0 THEN step.parallel ELSE <<step>>

\* The record DryRun makes for a step: its input resolved against the
\* context; the condition, not evaluated, goes into the output.
DryRecord(s, steps) ==
    LET whenKeys == IF s.when.kind # "none" THEN {"_when"} ELSE {}
    IN  IF ResolveMap(steps, s.refs).err
        THEN StepResult(s.name, "resolve_error", "resolving input",
                        IF whenKeys = {} THEN NilOutput
                        ELSE OutputMap(whenKeys), 0)
        ELSE StepResult(s.name, "dry_run", "",
                        OutputMap(whenKeys \cup { r.field : r \in s.refs }), 0)

\* The result DryRun puts into the context for every step.
SyntheticResult ==
    [ZeroResult EXCEPT !.status = "dry_run", !.output = OutputMap({"_dry_run"})]

\* One iteration of DryRun's inner loop: mergeIdx is the place in the list of
\* the step at idx.
DryRunStep ==
    /\ pc = "dry" /\ idx <= Len(flow)
    /\ LET steps == DryList(flow[idx])
           s == steps[mergeIdx]
       IN  /\ result' = [result EXCEPT
                            !.steps = Append(@, DryRecord(s, sctx))]
           /\ sctx' = AddStepResult(sctx, s.name, SyntheticResult)
           /\ IF mergeIdx < Len(steps)
              THEN mergeIdx' = mergeIdx + 1 /\ idx' = idx
              ELSE mergeIdx' = 1 /\ idx' = idx + 1
    /\ UNCHANGED <<flow, pc, procs, results, cancelled, hist, call, ret, engine, threads>>

\* DryRun returns the result.
DryRunReturn ==
    /\ pc = "dry" /\ idx > Len(flow)
    /\ result' = [result EXCEPT !.completed = TRUE]
    /\ ret' = [op |-> "DryRun", err |-> FALSE]
    /\ pc' = "done"
    /\ UNCHANGED <<flow, idx, mergeIdx, sctx, procs, results, cancelled, hist,
                   call,
                   engine, threads>>

NextDryRun == CallDryRun \/ DryRunStep \/ DryRunReturn

SpecDryRun == InitDryRun /\ [][NextDryRun]_vars

\* ------------------------------------------------------- registry calls
\* A call of a method of the Registry.
RegisterCall(c) == [op |-> "Register", name |-> c.name, c |-> c]
GetCall(n) == [op |-> "Get", name |-> n, c |-> Builtin(n)]
HasCall(n) == [op |-> "Has", name |-> n, c |-> Builtin(n)]
ListCall == [op |-> "List", name |-> "", c |-> Builtin("")]

\* What one thread calls, in order: the registrations of startup (a built-in,
\* then plugins, one of them with the built-in's name or both with the same
\* name), single calls, and ValidateFlow's Has followed by Get.
Programs ==
    { << RegisterCall(c) >> :
         c \in {Builtin("log"), Plugin("log", 1), Plugin("ext", 1),
                Plugin("ext", 2)} }
    \cup { << RegisterCall(Builtin("log")), RegisterCall(c) >> :
             c \in {Plugin("log", 1), Plugin("ext", 1)} }
    \cup { << RegisterCall(Plugin("ext", 1)), RegisterCall(Plugin("ext", 2)) >>,
           << RegisterCall(Plugin("ext", 2)), RegisterCall(Plugin("aux", 1)) >> }
    \cup { << HasCall(n), GetCall(n) >> : n \in {"log", "ext"} }
    \cup { << GetCall("ext") >>, << ListCall >>, << ListCall, HasCall("ext") >> }

\* A thread: its calls, the call it is at, where it stands in that call, the
\* value found under the lock, and what its calls returned.  known is the set
\* of names for which a Has had returned true when the call took its lock.
Thread(prog) ==
    [prog |-> prog, k |-> 1, pc |-> "call", exists |-> FALSE,
     val |-> [ok |-> FALSE], known |-> {}, rets |-> <<>>]

\* The names for which a call of Has has returned true.
HasReturnedTrue ==
    UNION { { threads[t].prog[j].name :
                j \in { i \in 1..Len(threads[t].rets) :
                          threads[t].prog[i].op = "Has"
                          /\ threads[t].rets[i].ok } } :
            t \in DOMAIN threads }

\* The engine's variables are parked while the registry is used.
InitRegistry ==
    /\ flow = <<>>
    /\ pc = "none"
    /\ idx = 0
    /\ mergeIdx = 0
    /\ result = [status |-> "", error |-> NoError, steps |-> <<>>,
                 completed |-> FALSE]
    /\ sctx = [n \in {} |-> ZeroResult]
    /\ procs = NoProcs
    /\ results = <<>>
    /\ cancelled = FALSE
    /\ hist = [n \in {} |-> [whens |-> <<>>, attempts |-> <<>>, waits |-> <<>>]]
    /\ call = [op |-> "Registry"]
    /\ ret = NoRet
    /\ engine \in {NewRegistry, DefaultRegistry}
    /\ threads \in UNION { [1..n -> { Thread(p) : p \in Programs }] :
                            n \in 1..MaxThreads }

\* The frame of every step of a thread on the registry.
RegistryFrame ==
    UNCHANGED <<flow, pc, idx, mergeIdx, result, sctx, procs, results,
                cancelled, hist, call, ret>>

Calling(t, ops) ==
    /\ call.op = "Registry"
    /\ t \in DOMAIN threads
    /\ threads[t].k <= Len(threads[t].prog)
    /\ threads[t].prog[threads[t].k].op \in ops

\* r.mu.Lock() with a slip: it does not wait for the lock to be free.
Lock_NoExclusion(t) ==
    /\ Calling(t, {"Register"}) /\ threads[t].pc = "call"
    /\ engine' = [engine EXCEPT !.mu.w = t]
    /\ threads' = [threads EXCEPT ![t].pc = "locked",
                                  ![t].known = HasReturnedTrue]
    /\ RegistryFrame

\* r.mu.Lock() in Register: taken when no thread holds the lock.
Lock(t) ==
    /\ Calling(t, {"Register"}) /\ threads[t].pc = "call"
    /\ engine.mu = FreeLock
    /\ engine' = [engine EXCEPT !.mu.w = t]
    /\ threads' = [threads EXCEPT ![t].pc = "locked",
                                  ![t].known = HasReturnedTrue]
    /\ RegistryFrame

\* r.mu.RLock() in Get, Has and List: taken when no thread holds the write
\* lock.
RLock(t) ==
    /\ Calling(t, {"Get", "Has", "List"}) /\ threads[t].pc = "call"
    /\ engine.mu.w = 0
    /\ engine' = [engine EXCEPT !.mu.r = @ \cup {t}]
    /\ threads' = [threads EXCEPT ![t].pc = "locked",
                                  ![t].known = HasReturnedTrue]
    /\ RegistryFrame

\* Register: _, exists := r.connectors[name].
RegisterCheck(t) ==
    /\ Calling(t, {"Register"}) /\ threads[t].pc = "locked"
    /\ threads' = [threads EXCEPT
                      ![t].pc = "checked",
                      ![t].exists = threads[t].prog[threads[t].k].name
                                       \in DOMAIN engine.connectors]
    /\ UNCHANGED engine
    /\ RegistryFrame

\* RegisterStore with a slip: the connector is stored whatever the check found.
RegisterStore_Overwrites(t) ==
    /\ Calling(t, {"Register"}) /\ threads[t].pc = "checked"
    /\ LET c == threads[t].prog[threads[t].k].c
       IN  /\ engine' = [engine EXCEPT !.connectors =
                            [n \in DOMAIN @ \cup {c.name} |->
                               IF n = c.name THEN c ELSE @[n]]]
           /\ threads' = [threads EXCEPT ![t].pc = "ret",
                                         ![t].val = [ok |-> TRUE]]
    /\ RegistryFrame

\* Register: the error when the name exists, r.connectors[name] = c otherwise.
RegisterStore(t) ==
    /\ Calling(t, {"Register"}) /\ threads[t].pc = "checked"
    /\ LET c == threads[t].prog[threads[t].k].c
       IN  IF threads[t].exists
           THEN /\ threads' = [threads EXCEPT ![t].pc = "ret",
                                              ![t].val = [ok |-> FALSE]]
                /\ UNCHANGED engine
           ELSE /\ engine' = [engine EXCEPT !.connectors =
                                 [n \in DOMAIN @ \cup {c.name} |->
                                    IF n = c.name THEN c ELSE @[n]]]
                /\ threads' = [threads EXCEPT ![t].pc = "ret",
                                              ![t].val = [ok |-> TRUE]]
    /\ RegistryFrame

\* Get: c, ok := r.connectors[name].
Get(t) ==
    /\ Calling(t, {"Get"}) /\ threads[t].pc = "locked"
    /\ LET n == threads[t].prog[threads[t].k].name
       IN  threads' = [threads EXCEPT
                          ![t].pc = "ret",
                          ![t].val = IF n \in DOMAIN engine.connectors
                                     THEN [ok |-> TRUE,
                                           c |-> engine.connectors[n]]
                                     ELSE [ok |-> FALSE]]
    /\ UNCHANGED engine
    /\ RegistryFrame

\* Has: _, ok := r.connectors[name].
Has(t) ==
    /\ Calling(t, {"Has"}) /\ threads[t].pc = "locked"
    /\ threads' = [threads EXCEPT
                      ![t].pc = "ret",
                      ![t].val = [ok |-> threads[t].prog[threads[t].k].name
                                            \in DOMAIN engine.connectors]]
    /\ UNCHANGED engine
    /\ RegistryFrame

\* List: the names of r.connectors.
List(t) ==
    /\ Calling(t, {"List"}) /\ threads[t].pc = "locked"
    /\ threads' = [threads EXCEPT
                      ![t].pc = "ret",
                      ![t].val = [ok |-> TRUE,
                                  names |-> DOMAIN engine.connectors]]
    /\ UNCHANGED engine
    /\ RegistryFrame

\* The deferred r.mu.Unlock() of Register, and the return.
Unlock(t) ==
    /\ Calling(t, {"Register"}) /\ threads[t].pc = "ret"
    /\ engine' = [engine EXCEPT !.mu.w = 0]
    /\ threads' = [threads EXCEPT ![t].pc = "call", ![t].k = @ + 1,
                                  ![t].rets = Append(@, threads[t].val)]
    /\ RegistryFrame

\* The deferred r.mu.RUnlock() of Get, Has and List, and the return.
RUnlock(t) ==
    /\ Calling(t, {"Get", "Has", "List"}) /\ threads[t].pc = "ret"
    /\ engine' = [engine EXCEPT !.mu.r = @ \ {t}]
    /\ threads' = [threads EXCEPT ![t].pc = "call", ![t].k = @ + 1,
                                  ![t].rets = Append(@, threads[t].val)]
    /\ RegistryFrame

NextRegistry ==
    \E t \in 1..MaxThreads :
       \/ Lock(t) \/ RLock(t)
       \/ RegisterCheck(t) \/ RegisterStore(t)
       \/ Get(t) \/ Has(t) \/ List(t)
       \/ Unlock(t) \/ RUnlock(t)

SpecRegistry == InitRegistry /\ [][NextRegistry]_vars

\* -------------------------------------------------------- flow composition
\* A value of an input or output map: a string, a number, a boolean or a
\* map[string]any.  A scalar carries its type and its text.
Str(s) == [t |-> "string", v |-> s]
Num(n) == [t |-> "number", v |-> ToString(n)]
Bool(b) == [t |-> "bool", v |-> IF b THEN "true" ELSE "false"]
MapOf(m) == [t |-> "map", v |-> m]

\* The keys of the maps, in the sorted order in which fmt prints them.
SortedKeys == <<"m", "n">>

\* fmt.Sprintf("%v", val): a scalar is its text, a map is map[k:v k:v] with
\* its keys sorted.
RECURSIVE Render(_), RenderEntries(_, _, _)
Render(val) ==
    IF val.t = "map"
    THEN "map[" \o RenderEntries(val.v, 1, TRUE) \o "]"
    ELSE val.v

RenderEntries(m, i, first) ==
    IF i > Len(SortedKeys) THEN ""
    ELSE IF SortedKeys[i] \notin DOMAIN m THEN RenderEntries(m, i + 1, first)
    ELSE (IF first THEN "" ELSE " ") \o SortedKeys[i] \o ":"
         \o Render(m[SortedKeys[i]]) \o RenderEntries(m, i + 1, FALSE)

\* A map[string]any without entries, and a StepResult.Output: nil or a map.
NoEntries == [k \in {} |-> Str("")]
NilOut == [isNil |-> TRUE, map |-> NoEntries]
Out(m) == [isNil |-> FALSE, map |-> m]

\* A value of a step's declared input: a literal, or a string that is one
\* whole expression: ${{ input.<a> }}, ${{ steps.<a>.output.<b> }},
\* ${{ steps.<a>.status }} (b is "status"), ${{ env.<a> }}, ${{ secret.<a> }}.
Lit(val) == [root |-> "lit", a |-> "", b |-> "", val |-> val]
FromInput(k) == [root |-> "input", a |-> k, b |-> "", val |-> Str("")]
FromInputAt(k, n) == [root |-> "input", a |-> k, b |-> n, val |-> Str("")]
FromStep(n, f) == [root |-> "steps", a |-> n, b |-> f, val |-> Str("")]
FromEnv(k) == [root |-> "env", a |-> k, b |-> "", val |-> Str("")]
FromSecret(k) == [root |-> "secret", a |-> k, b |-> "", val |-> Str("")]

\* The environment of the process, the same for every context it makes.
ProcessEnv == [k \in {"HOME"} |-> "/root"]

\* NewStepContext(input): the input, no step results, the process
\* environment, no secrets.
NewStepContext(input) ==
    [Input |-> input,
     Steps |-> [n \in {} |-> ZeroResult],
     Env |-> ProcessEnv,
     Secrets |-> [k \in {} |-> ""]]

\* A value found, and a value not found.
Found(val) == [err |-> FALSE, val |-> val]
NotFound == [err |-> TRUE, val |-> Str("")]

\* The element of a set of one element.
Only(S) == CHOOSE val \in S : TRUE

\* lookupNested(m, path): the value at the path, one key after the other; an
\* error when a key is not there or when the value to index is not a map.
RECURSIVE lookupNested(_, _)
lookupNested(m, parts) ==
    IF parts = <<>> THEN Found(m)
    ELSE Only({IF current.t # "map" THEN NotFound
               ELSE IF Head(parts) \notin DOMAIN current.v THEN NotFound
               ELSE lookupNested(current.v[Head(parts)], Tail(parts)) :
                  current \in {m}})

\* Returns the error of a lookup that fails.
resolveInput_Errors(sc, x) ==
    lookupNested(MapOf(sc.Input), IF x.b = "" THEN <<x.a>> ELSE <<x.a, x.b>>)

\* resolvePath, case "input": the value at input.<a> or input.<a>.<b>; a
\* lookup that fails gives "" and no error.
resolveInput(sc, x) ==
    Only({IF val.err THEN Found(Str("")) ELSE val :
            val \in {lookupNested(MapOf(sc.Input),
                                  IF x.b = "" THEN <<x.a>> ELSE <<x.a, x.b>>)}})

\* resolvePath, case "secret": the secret, or "" when there is none.
resolveSecret(sc, k) ==
    Found(Str(IF k \in DOMAIN sc.Secrets THEN sc.Secrets[k] ELSE ""))

\* StepContext.resolveValue: a value that is not an expression is returned as
\* it is; a whole expression keeps the type of what its path resolves to.  A
\* missing input field and a missing environment variable are ""; a step that
\* has no result, an output that is nil and a key that is not there are errors.
resolveValue(sc, x) ==
    CASE x.root = "lit" -> Found(x.val)
      [] x.root = "input" -> resolveInput(sc, x)
      [] x.root = "steps" ->
           IF x.a \notin DOMAIN sc.Steps THEN NotFound
           ELSE IF x.b = "status" THEN Found(Str(sc.Steps[x.a].status))
           ELSE IF sc.Steps[x.a].output.isNil THEN NotFound
           ELSE lookupNested(MapOf(sc.Steps[x.a].output.map), <<x.b>>)
      [] x.root = "env" ->
           Found(Str(IF x.a \in DOMAIN sc.Env THEN sc.Env[x.a] ELSE ""))
      [] x.root = "secret" -> resolveSecret(sc, x.a)
      [] OTHER -> NotFound

\* StepContext.ResolveMap on values: every entry resolved, or an error when
\* one of them fails.
ResolveValues(sc, m) ==
    [err |-> \E k \in DOMAIN m : resolveValue(sc, m[k]).err,
     val |-> [k \in DOMAIN m |-> resolveValue(sc, m[k]).val]]

\* fmt.Sprintf("%v", input[k]): the text of a value, <nil> for a missing key.
Sprint(input, k) == IF k \in DOMAIN input THEN Render(input[k]) ELSE "<nil>"

\* input[k].(string): the string, or "" when the value is not a string.
AsString(input, k) ==
    IF k \in DOMAIN input /\ input[k].t = "string" THEN input[k].v ELSE ""

\* What a connector's Execute returns for an input.  log prints the message.
\* shell runs the command: it needs one; exit 0 succeeds, exit 1 fails, and
\* any other text is a command sh does not find (exit code 127).  The result
\* of a command is taken to depend on the command alone.
Execute(c, input) ==
    CASE c = "log" ->
           [err |-> FALSE, status |-> "success", error |-> "",
            output |-> Out("message" :> Str(Sprint(input, "message")))]
      [] c = "shell" ->
           LET command == AsString(input, "command")
               code == CASE command = "exit 0" -> 0
                         [] command = "exit 1" -> 1
                         [] OTHER -> 127
           IN  IF command = ""
               THEN [err |-> TRUE, status |-> "", error |-> "execute error",
                     output |-> NilOut]
               ELSE [err |-> FALSE,
                     status |-> IF code = 0 THEN "success" ELSE "failed",
                     error |-> "",
                     output |-> Out(("stdout" :> Str(""))
                                    @@ ("stderr" :> Str(IF code = 127
                                                        THEN "not found"
                                                        ELSE ""))
                                    @@ ("exit_code" :> Num(code)))]
      [] OTHER -> [err |-> TRUE, status |-> "", error |-> "execute error",
                   output |-> NilOut]

\* types.StepDef with the values of its input map: flow is the Flow field.
FlowStepDef(n, c, oe, w, in, fl) ==
    [name |-> n, connector |-> c, onError |-> oe, when |-> w, input |-> in,
     flow |-> fl]

\* types.FlowDef.
FlowDef(nm, schema, steps) == [name |-> nm, schema |-> schema, steps |-> steps]

\* The flows Engine.FlowLoader finds by name.  echo logs an input field; peek
\* reads an input field, a secret and a step result that only a caller could
\* have; work runs a command and goes on; strict needs its input and aborts
\* on a failure; outer calls strict as a sub-flow of its own.
LoadedFlows ==
    [n \in {"echo", "peek", "work", "strict", "outer"} |->
        CASE n = "echo" ->
               FlowDef(n, NoSchema,
                   << FlowStepDef("say", "log", "", NoWhen,
                                  "message" :> FromInput("name"), "") >>)
          [] n = "peek" ->
               FlowDef(n, NoSchema,
                   << FlowStepDef("in", "log", "", NoWhen,
                                  "message" :> FromInput("hidden"), ""),
                      FlowStepDef("sec", "log", "", NoWhen,
                                  "message" :> FromSecret("K"), ""),
                      FlowStepDef("off", "log", "", WhenFalse,
                                  "message" :> Lit(Str("off")), ""),
                      FlowStepDef("up", "shell", "continue", NoWhen,
                                  "command" :> FromStep("p1", "message"),
                                  "") >>)
          [] n = "work" ->
               FlowDef(n, NoSchema,
                   << FlowStepDef("cmd", "shell", "continue", NoWhen,
                                  "command" :> FromInput("name"), ""),
                      FlowStepDef("say", "log", "skip", NoWhen,
                                  "message" :> Lit(Str("done")), "") >>)
          [] n = "strict" ->
               FlowDef(n, SchemaDef("name" :> FieldDef("string", TRUE)),
                   << FlowStepDef("cmd", "shell", "", NoWhen,
                                  "command" :> FromInput("name"), "") >>)
          [] OTHER ->
               FlowDef(n, NoSchema,
                   << FlowStepDef("inner", "flow", "continue", NoWhen,
                                  "name" :> FromInput("name"), "strict"),
                      FlowStepDef("say", "log", "", NoWhen,
                                  "message" :> FromInput("name"), "") >>)]

\* An Engine: whether FlowLoader is set.
EngineOf(hasLoader) == [hasLoader |-> hasLoader]

\* step.Input["flow"].(string) of the declared input: the text of a string,
\* an expression as it is written, "" for anything else.
RawFlowName(in) ==
    IF "flow" \notin DOMAIN in THEN ""
    ELSE IF in["flow"].root # "lit" THEN "${{ expression }}"
    ELSE IF in["flow"].val.t = "string" THEN in["flow"].val.v
    ELSE ""

\* delete(childInput, "flow") with a slip: the key stays.
DeleteFlowKey_Kept(m) == m

\* delete(childInput, "flow").
DeleteFlowKey(m) == [k \in DOMAIN m \ {"flow"} |-> m[k]]

\* executeFlowStep's loop over childResult.Steps: each output that is not nil
\* is written over the map, key by key.
RECURSIVE MergeChildOutputs(_, _)
MergeChildOutputs(m, steps) ==
    IF steps = <<>> THEN m
    ELSE MergeChildOutputs(IF Head(steps).output.isNil THEN m
                           ELSE Head(steps).output.map @@ m,
                           Tail(steps))

RECURSIVE runStep(_, _, _, _)
RECURSIVE runSteps(_, _, _, _, _)
RECURSIVE executeStepOn(_, _, _)
RECURSIVE executeFlowStep(_, _, _)
RECURSIVE Run(_, _, _)

\* Engine.Run: ValidateInput's error and no result, or the result of
\* runWithContext on a new FlowResult and a new StepContext.  sctx is the
\* context it made.
Run(e, f, input) ==
    IF ValidateInput(f.schema, input) # {}
    THEN [err |-> TRUE,
          result |-> [status |-> "", error |-> NoError, steps |-> <<>>,
                      completed |-> FALSE],
          sctx |-> NewStepContext(input)]
    ELSE [err |-> FALSE,
          result |-> runSteps(e, f.steps, 1,
                              [status |-> "success", error |-> NoError,
                               steps |-> <<>>, completed |-> FALSE],
                              NewStepContext(input)),
          sctx |-> NewStepContext(input)]

\* One iteration of Engine.runWithContext's loop, for an ordinary step without
\* a retry loop: the condition, the step, its record in the result and in the
\* context, the policy.
runStep(e, step, res, sc) ==
    LET cond == EvaluateCondition(sc.Steps, step.when)
        bad == \E c \in cond : c.err
        skip == ~bad /\ \E c \in cond : ~c.val
    IN  Only({LET res1 == [res EXCEPT !.steps = Append(@, sr)]
                  h == IF skip THEN [failed |-> FALSE, result |-> res1]
                       ELSE handleStepError(sr, step.onError, res1)
              IN  [failed |-> h.failed, result |-> h.result,
                   sctx |-> [sc EXCEPT
                               !.Steps = AddStepResult(@, step.name, sr)]] :
                sr \in {IF bad
                        THEN StepResult(step.name, "error",
                                        "evaluating condition", NilOut, 0)
                        ELSE IF skip
                        THEN StepResult(step.name, "skipped", "", NilOut, 0)
                        ELSE executeStepOn(e, step, sc)}})

\* Engine.runWithContext from step k on.
runSteps(e, steps, k, res, sc) ==
    IF k > Len(steps) THEN [res EXCEPT !.completed = TRUE]
    ELSE Only({IF x.failed THEN [x.result EXCEPT !.completed = TRUE]
               ELSE runSteps(e, steps, k + 1, x.result, x.sctx) :
                 x \in {runStep(e, steps[k], res, sc)}})

\* Engine.executeStep on values: a flow step, a connector that is not
\* registered, an input that does not resolve, or the connector's result.
executeStepOn(e, step, sc) ==
    IF step.connector = "flow" THEN executeFlowStep(e, step, sc).sr
    ELSE IF step.connector \notin Registered
    THEN StepResult(step.name, "error", "connector not found", NilOut, 0)
    ELSE Only({IF rm.err
               THEN StepResult(step.name, "error", "resolving input",
                               NilOut, 0)
               ELSE Only({IF x.err
                          THEN StepResult(step.name, "error", x.error,
                                          NilOut, 0)
                          ELSE StepResult(step.name, x.status, x.error,
                                          x.output, 0) :
                            x \in {Execute(step.connector, rm.val)}}) :
                 rm \in {ResolveValues(sc, step.input)}})

\* Engine.executeFlowStep: the step result sr; called tells whether Run was
\* called, childInput is what it was called with and run is what it returned.
executeFlowStep(e, step, sc) ==
    LET flowName == IF step.flow # "" THEN step.flow
                    ELSE RawFlowName(step.input)
        fail(msg) == [sr |-> StepResult(step.name, "error", msg, NilOut, 0),
                      called |-> FALSE, childInput |-> NoEntries,
                      run |-> [err |-> TRUE]]
    IN  IF ~e.hasLoader THEN fail("flow composition not configured")
        ELSE IF flowName = "" THEN fail("flow step requires 'flow'")
        ELSE IF flowName \notin DOMAIN LoadedFlows THEN fail("loading flow")
        ELSE Only({
          IF rm.err THEN fail("resolving child flow input")
          ELSE Only({
            IF run.err
            THEN [sr |-> StepResult(step.name, "error", "running flow",
                                    NilOut, 0),
                  called |-> TRUE, childInput |-> DeleteFlowKey(rm.val),
                  run |-> run]
            ELSE [sr |-> StepResult(step.name, run.result.status,
                             IF run.result.error # NoError
                             THEN run.result.error
                             ELSE "",
                             Out(MergeChildOutputs(
                                   ("flow_status" :> Str(run.result.status))
                                   @@ ("steps" :> Num(Len(run.result.steps))),
                                   run.result.steps)),
                             0),
                  called |-> TRUE, childInput |-> DeleteFlowKey(rm.val),
                  run |-> run] :
              run \in {Run(e, LoadedFlows[flowName],
                           DeleteFlowKey(rm.val))}}) :
            rm \in {ResolveValues(sc, step.input)}})

\* The contexts a flow step is executed in: the input of the run (the field
\* hidden may hold the name of a flow), the result of an earlier step p1, the
\* secrets of the run.
Commands == {"exit 0", "exit 1"}

ParentContexts ==
    { [Input |-> ("name" :> Str(c)) @@ ("hidden" :> Str(h)),
       Steps |-> "p1" :> StepResult("p1", "success", "",
                                    Out("message" :> Str(m)), 0),
       Env |-> ProcessEnv,
       Secrets |-> s] :
        c \in Commands, h \in {"h1", "echo"}, m \in Commands,
        s \in { [k \in {} |-> ""], [k \in {"K"} |-> "s1"] } }

\* The flow steps executed: the Flow field or not, and an input map with or
\* without the keys name and flow.
ParentInputs ==
    { n @@ f :
        n \in { NoEntries }
              \cup { "name" :> x :
                       x \in { Lit(Str("exit 0")), FromInput("name"),
                               FromInput("hidden"), FromStep("p1", "message"),
                               FromStep("p0", "message"), FromSecret("K") } },
        f \in { NoEntries }
              \cup { "flow" :> x :
                       x \in { Lit(Str("echo")), Lit(Num(1)),
                               FromInput("name"), FromInput("hidden") } } }

ParentSteps ==
    { FlowStepDef("sub", "flow", "", NoWhen, in, fl) :
        in \in ParentInputs,
        fl \in DOMAIN LoadedFlows \cup {"", "missing"} }

\* One flow step executed in two runs of a parent flow.
InitFlowStep ==
    /\ NoRun
    /\ call \in { [op |-> "executeFlowStep", e |-> EngineOf(l), step |-> s,
                   sctx |-> <<a, b>>] :
                     l \in BOOLEAN, s \in ParentSteps,
                     a \in ParentContexts, b \in ParentContexts }
    /\ call.e.hasLoader \/ call.sctx[1] = call.sctx[2]
    /\ ret = NoRet

\* executeFlowStep(ctx, step, sctx) is called in each run and returns.
CallFlowStep ==
    /\ call.op = "executeFlowStep" /\ ret = NoRet
    /\ ret' = [op |-> "executeFlowStep",
               out |-> [i \in 1..2 |->
                          executeFlowStep(call.e, call.step, call.sctx[i])]]
    /\ UNCHANGED <<flow, pc, idx, mergeIdx, result, sctx, procs, results,
                   cancelled, hist, call,
                   engine, threads>>

SpecFlowStep == InitFlowStep /\ [][CallFlowStep]_vars

\* ---------------------------------------------------------- concurrent runs
\* A run of a flow on the shared Engine: the arguments of Run, where the run
\* stands, its FlowResult and its StepContext.
RunThread(f, input) ==
    [f |-> f, input |-> input, pc |-> "call", k |-> 1, err |-> FALSE,
     res |-> [status |-> "", error |-> NoError, steps |-> <<>>,
              completed |-> FALSE],
     sc |-> NewStepContext(NoEntries)]

\* The runs started at the same time: the flows the webhook server has
\* loaded, triggered with and without the input field name.
RunThreads ==
    { RunThread(LoadedFlows[n], in) :
        n \in {"echo", "work", "strict", "outer"},
        in \in { NoEntries } \cup { "name" :> Str(c) : c \in Commands } }

InitRuns ==
    /\ flow = <<>>
    /\ pc = "none"
    /\ idx = 0
    /\ mergeIdx = 0
    /\ result = [status |-> "", error |-> NoError, steps |-> <<>>,
                 completed |-> FALSE]
    /\ sctx = [n \in {} |-> ZeroResult]
    /\ procs = NoProcs
    /\ results = <<>>
    /\ cancelled = FALSE
    /\ hist = [n \in {} |-> [whens |-> <<>>, attempts |-> <<>>, waits |-> <<>>]]
    /\ call = [op |-> "Runs"]
    /\ ret = NoRet
    /\ engine = DefaultRegistry
    /\ threads \in UNION { [1..n -> RunThreads] : n \in 1..MaxThreads }

\* StartRun with a slip: the context is the one another run is using.
StartRun_SharedContext(t) ==
    /\ call.op = "Runs" /\ t \in DOMAIN threads /\ threads[t].pc = "call"
    /\ IF ValidateInput(threads[t].f.schema, threads[t].input) # {}
       THEN threads' = [threads EXCEPT ![t].pc = "done", ![t].err = TRUE]
       ELSE threads' = [threads EXCEPT
               ![t].pc = "loop",
               ![t].res = [status |-> "success", error |-> NoError,
                           steps |-> <<>>, completed |-> FALSE],
               ![t].sc = IF \E u \in DOMAIN threads : threads[u].pc = "loop"
                         THEN threads[CHOOSE u \in DOMAIN threads :
                                         threads[u].pc = "loop"].sc
                         ELSE NewStepContext(threads[t].input)]
    /\ UNCHANGED engine
    /\ RegistryFrame

\* Engine.Run up to the call of runWithContext, in run t: ValidateInput's
\* error, or a new FlowResult and a new StepContext.
StartRun(t) ==
    /\ call.op = "Runs" /\ t \in DOMAIN threads /\ threads[t].pc = "call"
    /\ IF ValidateInput(threads[t].f.schema, threads[t].input) # {}
       THEN threads' = [threads EXCEPT ![t].pc = "done", ![t].err = TRUE]
       ELSE threads' = [threads EXCEPT
               ![t].pc = "loop",
               ![t].res = [status |-> "success", error |-> NoError,
                           steps |-> <<>>, completed |-> FALSE],
               ![t].sc = NewStepContext(threads[t].input)]
    /\ UNCHANGED engine
    /\ RegistryFrame

\* One iteration of runWithContext's loop in run t, with the return when the
\* policy stops the flow.
RunStep(t) ==
    /\ call.op = "Runs" /\ t \in DOMAIN threads /\ threads[t].pc = "loop"
    /\ threads[t].k <= Len(threads[t].f.steps)
    /\ LET x == runStep(EngineOf(TRUE), threads[t].f.steps[threads[t].k],
                        threads[t].res, threads[t].sc)
       IN  threads' = [threads EXCEPT
               ![t].sc = x.sctx,
               ![t].res = IF x.failed THEN [x.result EXCEPT !.completed = TRUE]
                          ELSE x.result,
               ![t].k = @ + 1,
               ![t].pc = IF x.failed THEN "done" ELSE "loop"]
    /\ UNCHANGED engine
    /\ RegistryFrame

\* runWithContext returns after the last step in run t.
FinishRun(t) ==
    /\ call.op = "Runs" /\ t \in DOMAIN threads /\ threads[t].pc = "loop"
    /\ threads[t].k > Len(threads[t].f.steps)
    /\ threads' = [threads EXCEPT ![t].pc = "done", ![t].res.completed = TRUE]
    /\ UNCHANGED engine
    /\ RegistryFrame

NextRuns == \E t \in 1..MaxThreads : StartRun(t) \/ RunStep(t) \/ FinishRun(t)

SpecRuns == InitRuns /\ [][NextRuns]_vars

\* -------------------------------------------------------- string resolution
\* A string is a sequence of pieces: text, the delimiters ${{ and }}, and the
\* text of an expression, a path with or without a pipe function.  Spaces
\* around an expression are left out: the pattern and TrimSpace drop them.
Text(s) == [k |-> "text", s |-> s, x |-> Lit(Str("")), pipe |-> ""]
Open == [k |-> "open", s |-> "${{", x |-> Lit(Str("")), pipe |-> ""]
Close == [k |-> "close", s |-> "}}", x |-> Lit(Str("")), pipe |-> ""]
Path(x, pipe) ==
    [k |-> "expr",
     s |-> x.root \o "." \o x.a \o (IF x.b = "" THEN "" ELSE "." \o x.b)
           \o (IF pipe = "" THEN "" ELSE "|" \o pipe),
     x |-> x, pipe |-> pipe]
Expr(x, pipe) == <<Open, Path(x, pipe), Close>>

\* The characters of a string.
RECURSIVE TextOf(_)
TextOf(s) == IF s = <<>> THEN "" ELSE Head(s).s \o TextOf(Tail(s))

\* exprRegex, \$\{\{\s*(.+?)\s*\}\}, on the pieces from a position on: the
\* leftmost ${{ that has a }} after at least one piece, and the first such }}.
FindSubmatch(s, from) ==
    LET opens == {a \in from..Len(s) :
                     /\ s[a].k = "open"
                     /\ \E c \in (a + 2)..Len(s) : s[c].k = "close"}
    IN  IF opens = {} THEN [found |-> FALSE, a |-> 0, c |-> 0]
        ELSE LET a == CHOOSE i \in opens : \A j \in opens : i <= j
                 c == CHOOSE i \in (a + 2)..Len(s) :
                         /\ s[i].k = "close"
                         /\ \A j \in (a + 2)..Len(s) : s[j].k = "close" => i <= j
             IN  [found |-> TRUE, a |-> a, c |-> c]

\* strings.ToUpper, ToLower, TrimSpace and slugify on the texts of the values:
\* lower-case letters and digits, which only ToUpper changes.
ToUpper(s) ==
    CASE s = "ab" -> "AB"
      [] s = "x" -> "X"
      [] s = "true" -> "TRUE"
      [] s = "false" -> "FALSE"
      [] OTHER -> s

\* applyPipe(val, fn): the function applied to the text of the value, always a
\* string; an error for a function that is not known.
applyPipe(val, fn) ==
    CASE fn = "upper" -> Found(Str(ToUpper(Render(val))))
      [] fn \in {"slugify", "lower", "trim"} -> Found(Str(Render(val)))
      [] OTHER -> NotFound

\* evaluateExpr(expr) for the text between the delimiters.  One path piece is
\* resolved, and piped when it has a pipe.  Any other text is no path: it
\* resolves as its first piece says.  A path under input, env or secret with
\* text after it names nothing there, which is ""; a path with a pipe and text
\* after it names no pipe function; everything else is an error.
evaluateExpr(sc, expr) ==
    IF Len(expr) = 1 /\ Head(expr).k = "expr"
    THEN LET val == resolveValue(sc, Head(expr).x)
         IN  IF val.err \/ Head(expr).pipe = "" THEN val
             ELSE applyPipe(val.val, Head(expr).pipe)
    ELSE IF /\ Head(expr).k = "expr"
            /\ Head(expr).pipe = ""
            /\ Head(expr).x.root \in {"input", "env", "secret"}
         THEN Found(Str(""))
         ELSE NotFound

\* Replaces the first match only.
ReplaceAll_FirstOnly(sc, s, from) ==
    LET match == FindSubmatch(s, from)
    IN  IF ~match.found
        THEN [err |-> FALSE, val |-> TextOf(SubSeq(s, from, Len(s)))]
        ELSE LET val == evaluateExpr(sc, SubSeq(s, match.a + 1, match.c - 1))
             IN  [err |-> val.err,
                  val |-> TextOf(SubSeq(s, from, match.a - 1))
                          \o (IF val.err
                              THEN TextOf(SubSeq(s, match.a, match.c))
                              ELSE Render(val.val))
                          \o TextOf(SubSeq(s, match.c + 1, Len(s)))]

\* ReplaceAllStringFunc of resolveString: every match from a position on is
\* replaced by the text of its value, or left as it is when it has none, and
\* the text between the matches is kept.
RECURSIVE ReplaceAll(_, _, _)
ReplaceAll(sc, s, from) ==
    LET match == FindSubmatch(s, from)
    IN  IF ~match.found
        THEN [err |-> FALSE, val |-> TextOf(SubSeq(s, from, Len(s)))]
        ELSE LET val == evaluateExpr(sc, SubSeq(s, match.a + 1, match.c - 1))
                 rest == ReplaceAll(sc, s, match.c + 1)
             IN  [err |-> val.err \/ rest.err,
                  val |-> TextOf(SubSeq(s, from, match.a - 1))
                          \o (IF val.err
                              THEN TextOf(SubSeq(s, match.a, match.c))
                              ELSE Render(val.val))
                          \o rest.val]

\* Always interpolates: a whole expression is rendered as well.
resolveString_AlwaysRenders(sc, s) ==
    LET r == ReplaceAll(sc, s, 1)
    IN  [err |-> r.err, val |-> Str(r.val)]

\* StepContext.resolveString(s): a string that is one expression from end to
\* end is the value of the expression; any other string is interpolated.
resolveString(sc, s) ==
    LET match == FindSubmatch(s, 1)
    IN  IF match.found /\ match.a = 1 /\ match.c = Len(s)
        THEN evaluateExpr(sc, SubSeq(s, 2, Len(s) - 1))
        ELSE LET r == ReplaceAll(sc, s, 1)
             IN  [err |-> r.err, val |-> Str(r.val)]

\* The secrets given to RunWithSecrets: nil, or a map.
NilSecrets == [isNil |-> TRUE, map |-> [k \in {} |-> ""]]
SecretsOf(m) == [isNil |-> FALSE, map |-> m]

\* Leaves the secrets out of the context.
RunContext_DropsSecrets(input, secrets) == NewStepContext(input)

\* The context RunWithSecrets makes: that of NewStepContext(input), with the
\* secrets when they are not nil.  Run gives none.
RunContext(input, secrets) ==
    IF secrets.isNil THEN NewStepContext(input)
    ELSE [NewStepContext(input) EXCEPT !.Secrets = secrets.map]

\* The inputs of a run: no k, or k a string, an empty string, a number, a
\* boolean or a map.
ResolveInputs ==
    {NoEntries}
      \cup {"k" :> val : val \in {Str("ab"), Str(""), Num(7), Bool(TRUE),
                                  MapOf("n" :> Str("x"))}}

\* The step results recorded when the string is resolved: s1 succeeded with an
\* output, s0 was skipped and has none.
ResolveSteps ==
    "s1" :> [ZeroResult EXCEPT
               !.status = "success",
               !.output = Out("count" :> Num(42) @@ "ok" :> Bool(FALSE)
                                @@ "m" :> MapOf("n" :> Num(1)))]
      @@ "s0" :> [ZeroResult EXCEPT !.status = "skipped"]

\* The secrets of a run.
ResolveSecrets ==
    {NilSecrets, SecretsOf([k \in {} |-> ""]), SecretsOf("KEY" :> "s3cr3t")}

\* The paths of the expressions, and the expressions: every path bare, some
\* with a pipe function, one with a function that is not known.
ResolvePaths ==
    {FromInput("k"), FromInputAt("k", "n"), FromInput("zz"),
     FromInputAt("zz", "n"),
     FromStep("s1", "count"), FromStep("s1", "ok"), FromStep("s1", "m"),
     FromStep("s1", "zz"), FromStep("s1", "status"),
     FromStep("s0", "count"), FromStep("s9", "count"),
     FromEnv("HOME"), FromEnv("NOPE"),
     FromSecret("KEY"), FromSecret("NOPE")}

ResolveExprs ==
    {Path(x, "") : x \in ResolvePaths}
      \cup {Path(FromInput("k"), fn) : fn \in {"upper", "lower", "bogus"}}
      \cup {Path(FromStep("s1", "count"), "upper")}

\* The text around an expression: none, plain text, or text with a delimiter.
Around == {<<>>, <<Text("a ")>>, <<Text("a "), Open, Text("b ")>>,
           <<Close>>}

\* The strings resolved: no expression, one expression with text around it,
\* and two expressions with text between them.
ResolveStrings ==
    {<<Text("a ")>>, <<Open, Close>>, <<Open, Text("zz"), Close>>}
      \cup {pre \o <<Open, e, Close>> \o post :
              pre \in Around, e \in ResolveExprs, post \in Around}
      \cup {<<Open, e, Close>> \o mid \o <<Open, f, Close>> :
              e \in {Path(FromInput("k"), ""), Path(FromStep("s9", "count"), "")},
              mid \in {<<>>, <<Text("a ")>>},
              f \in {Path(FromInput("k"), ""), Path(FromStep("s1", "count"), ""),
                     Path(FromSecret("KEY"), "")}}

\* A call of resolveString in a run started by RunWithSecrets(input, secrets),
\* after the steps recorded so far.
InitResolve ==
    /\ NoRun
    /\ \E input \in ResolveInputs, secrets \in ResolveSecrets,
          s \in ResolveStrings :
          call = [op |-> "resolveString", input |-> input,
                  secrets |-> secrets, s |-> s]
    /\ ret = NoRet

\* The string is resolved in the context of the run.
CallResolve ==
    /\ call.op = "resolveString"
    /\ ret = NoRet
    /\ LET sc == [RunContext(call.input, call.secrets)
                    EXCEPT !.Steps = ResolveSteps]
       IN  ret' = [op |-> "resolveString", sc |-> sc,
                   out |-> resolveString(sc, call.s)]
    /\ UNCHANGED <<flow, pc, idx, mergeIdx, result, sctx, procs, results,
                   cancelled, hist, call, engine, threads>>

NextResolve == CallResolve

SpecResolve == InitResolve /\ [][NextResolve]_vars

\* ----------------------------------------------------------------- webhook
\* The routes of a WebhookServer: the trigger paths of three loaded flows.
Routes ==
    "/echo" :> LoadedFlows["echo"] @@ "/work" :> LoadedFlows["work"]
      @@ "/strict" :> LoadedFlows["strict"]

\* A request body is a sequence of items: JSON objects, null, arrays, and
\* text that is no JSON.  A body is valid JSON when it is one JSON value.
Object(m) == [j |-> "object", m |-> m]
Item(j) == [j |-> j, m |-> NoEntries]
BodyItems ==
    {Object(NoEntries), Object("name" :> Str("exit 0")),
     Object("name" :> Str("exit 1")), Item("null"), Item("array"),
     Item("junk")}
Bodies ==
    {<<>>} \cup {<<a>> : a \in BodyItems}
           \cup {<<a, b>> : a \in BodyItems, b \in BodyItems}

\* json.NewDecoder(r.Body).Decode(&input) for a map[string]any: it reads the
\* first value of the stream and leaves the rest unread.  No value is io.EOF;
\* an object is its map, null leaves the map nil, an array cannot be stored
\* in a map and text that is no JSON is a syntax error.
Decode(body) ==
    IF body = <<>> THEN [err |-> TRUE, isNil |-> TRUE, m |-> NoEntries]
    ELSE CASE Head(body).j = "object" ->
                [err |-> FALSE, isNil |-> FALSE, m |-> Head(body).m]
           [] Head(body).j = "null" ->
                [err |-> FALSE, isNil |-> TRUE, m |-> NoEntries]
           [] OTHER -> [err |-> TRUE, isNil |-> TRUE, m |-> NoEntries]

\* WebhookServer.handleTrigger: the status code written, whether Engine.Run
\* was called, and what it returned.
handleTrigger(method, path, body) ==
    LET none == [err |-> TRUE]
    IN  IF method # "POST" THEN [code |-> 405, ran |-> FALSE, run |-> none]
        ELSE IF path \notin DOMAIN Routes
        THEN [code |-> 404, ran |-> FALSE, run |-> none]
        ELSE Only({
          IF input.err THEN [code |-> 400, ran |-> FALSE, run |-> none]
          ELSE Only({
            [code |-> IF run.err THEN 400
                      ELSE IF run.result.status = "failed" THEN 500
                      ELSE 200,
             ran |-> ~run.err,
             run |-> run] :
               run \in {Run(EngineOf(FALSE), Routes[path], input.m)}}) :
            input \in {Decode(body)}})

\* A request reaches the handler.
InitWebhook ==
    /\ NoRun
    /\ \E method \in {"POST", "GET", "PUT"},
          path \in DOMAIN Routes \cup {"/nope"}, body \in Bodies :
          call = [op |-> "handleTrigger", method |-> method, path |-> path,
                  body |-> body]
    /\ ret = NoRet

\* The handler answers.
CallTrigger ==
    /\ call.op = "handleTrigger"
    /\ ret = NoRet
    /\ ret' = [op |-> "handleTrigger",
               out |-> handleTrigger(call.method, call.path, call.body)]
    /\ UNCHANGED <<flow, pc, idx, mergeIdx, result, sctx, procs, results,
                   cancelled, hist, call, engine, threads>>

NextWebhook == CallTrigger

SpecWebhook == InitWebhook /\ [][NextWebhook]_vars

\* ------------------------------------------------ resolution and the heap
\* Maps and lists are objects of a heap, a sequence of objects in which the
\* address of an object is its index; make(...) appends one.  A value is a
\* string, a number, or a reference to a map or a list.  A string is plain
\* text, one whole expression ("expr"), or text around an expression ("tpl").
HStr(s) == [t |-> "str", v |-> s]
HNum(n) == [t |-> "num", v |-> n]
HExpr(p) == [t |-> "expr", v |-> p]
HTpl(p) == [t |-> "tpl", v |-> p]
HRef(a) == [t |-> "ref", v |-> a]
HNil == [t |-> "nil", v |-> 0]

MapObj(ent) == [kind |-> "map", ent |-> ent]
ListObj(items) == [kind |-> "list", ent |-> items]

\* The path of an expression: input(.<path>), steps.<step>.output.<path>,
\* steps.<step>.status, env.<name>, and a root that does not exist.
PIn(path) == [root |-> "input", step |-> "", path |-> path]
POut(s, path) == [root |-> "output", step |-> s, path |-> path]
PStatus(s) == [root |-> "status", step |-> s, path |-> <<>>]
PEnv(n) == [root |-> "env", step |-> n, path |-> <<>>]
PBad == [root |-> "bogus", step |-> "", path |-> <<>>]

\* lookupNested on the heap: the value at the path below the value cur.
RECURSIVE lookupNestedAt(_, _, _)
lookupNestedAt(h, cur, path) ==
    IF path = <<>> THEN [err |-> FALSE, val |-> cur]
    ELSE IF cur.t # "ref" THEN [err |-> TRUE, val |-> HNil]
    ELSE IF h[cur.v].kind # "map" THEN [err |-> TRUE, val |-> HNil]
    ELSE IF Head(path) \notin DOMAIN h[cur.v].ent
    THEN [err |-> TRUE, val |-> HNil]
    ELSE lookupNestedAt(h, h[cur.v].ent[Head(path)], Tail(path))

\* StepContext.resolvePath on the heap.  sc holds the addresses of the maps
\* Input, Steps and Env.  The value found is returned as it is stored: a map
\* or a list of the context is returned by reference.
resolvePathAt(h, sc, p) ==
    CASE p.root = "input" ->
           IF p.path = <<>> THEN [val |-> HRef(sc.Input), errs |-> {}]
           ELSE Only({ [val |-> IF l.err THEN HStr("") ELSE l.val,
                        errs |-> {}] :
                         l \in {lookupNestedAt(h, HRef(sc.Input), p.path)} })
      [] p.root \in {"output", "status"} ->
           IF p.step \notin DOMAIN h[sc.Steps].ent
           THEN [val |-> HNil, errs |-> {<<"step not found">>}]
           ELSE IF p.root = "status"
           THEN [val |-> HStr(h[sc.Steps].ent[p.step].status), errs |-> {}]
           ELSE IF h[sc.Steps].ent[p.step].output = 0
           THEN [val |-> HNil, errs |-> {<<"step has no output">>}]
           ELSE Only({ [val |-> l.val,
                        errs |-> IF l.err THEN {<<"key not found">>} ELSE {}] :
                         l \in {lookupNestedAt(
                                  h, HRef(h[sc.Steps].ent[p.step].output),
                                  p.path)} })
      [] p.root = "env" ->
           [val |-> IF p.step \in DOMAIN h[sc.Env].ent
                    THEN HStr(h[sc.Env].ent[p.step]) ELSE HStr(""),
            errs |-> {}]
      [] OTHER -> [val |-> HNil, errs |-> {<<"unknown variable root">>}]

\* fmt.Sprintf("%v", val) of a value on the heap.
SprintAt(h, val) ==
    CASE val.t = "str" -> val.v
      [] val.t = "num" -> ToString(val.v)
      [] val.t = "ref" -> IF h[val.v].kind = "map" THEN "map[...]" ELSE "[...]"
      [] OTHER -> "<nil>"

\* StepContext.resolveString on the heap: plain text is returned as it is, a
\* whole expression gives the value of its path, and text around an
\* expression gives the text with the rendering of the value in its place.
resolveStringAt(h, sc, s) ==
    CASE s.t = "str" -> [val |-> s, errs |-> {}]
      [] s.t = "expr" -> resolvePathAt(h, sc, s.v)
      [] OTHER ->
           Only({ [val |-> IF r.errs # {} THEN HNil
                           ELSE HStr("Hello " \o SprintAt(h, r.val)),
                   errs |-> r.errs] :
                    r \in {resolvePathAt(h, sc, s.v)} })

\* StepContext.resolveValue and ResolveMap on the heap.  Each returns the heap
\* after the call, the value returned and the errors the call can return (it
\* fails when there is one).  ResolveEntries is ResolveMap's loop over the
\* keys: Go ranges over a map in an order of its choosing, so the loop stops
\* at whichever failing key comes first and the error names that key.
\* ResolveItems is resolveValue's loop over a list, which stops at the first
\* failing item.
RECURSIVE resolveValueAt(_, _, _), ResolveEntries(_, _, _, _),
          ResolveItems(_, _, _, _)

\* ResolveMap with a slip: the resolved values are written into the map that
\* is walked, and that map is returned.
ResolveMapAt_InPlace(h, sc, a) ==
    Only({ IF r.errs # {}
           THEN [h |-> r.h, val |-> HNil, errs |-> r.errs]
           ELSE [h |-> [r.h EXCEPT ![a] = MapObj(r.ent)], val |-> HRef(a),
                 errs |-> {}] :
             r \in {ResolveEntries(h, sc, h[a].ent, DOMAIN h[a].ent)} })

ResolveMapAt(h, sc, a) ==
    Only({ IF r.errs # {}
           THEN [h |-> r.h, val |-> HNil, errs |-> r.errs]
           ELSE [h |-> Append(r.h, MapObj(r.ent)), val |-> HRef(Len(r.h) + 1),
                 errs |-> {}] :
             r \in {ResolveEntries(h, sc, h[a].ent, DOMAIN h[a].ent)} })

ResolveEntries(h, sc, ent, keys) ==
    IF keys = {} THEN [h |-> h, ent |-> <<>>, errs |-> {}]
    ELSE Only({ Only({ [h |-> rest.h,
                        ent |-> (k :> r.val) @@ rest.ent,
                        errs |-> { <<k>> \o e : e \in r.errs }
                                 \cup rest.errs] :
                         rest \in {ResolveEntries(r.h, sc, ent, keys \ {k})} }) :
                  k \in {CHOOSE k \in keys : TRUE},
                  r \in {resolveValueAt(h, sc, ent[CHOOSE k \in keys : TRUE])} })

ResolveItems(h, sc, items, i) ==
    IF i > Len(items) THEN [h |-> h, ent |-> <<>>, errs |-> {}]
    ELSE Only({ IF r.errs # {}
                THEN [h |-> r.h, ent |-> <<>>, errs |-> r.errs]
                ELSE Only({ [h |-> rest.h, ent |-> <<r.val>> \o rest.ent,
                             errs |-> rest.errs] :
                              rest \in {ResolveItems(r.h, sc, items, i + 1)} }) :
                  r \in {resolveValueAt(h, sc, items[i])} })

resolveValueAt(h, sc, v) ==
    CASE v.t \in {"str", "expr", "tpl"} ->
           Only({ [h |-> h, val |-> r.val, errs |-> r.errs] :
                    r \in {resolveStringAt(h, sc, v)} })
      [] v.t = "ref" ->
           IF h[v.v].kind = "map" THEN ResolveMapAt(h, sc, v.v)
           ELSE Only({ IF r.errs # {}
                       THEN [h |-> r.h, val |-> HNil, errs |-> r.errs]
                       ELSE [h |-> Append(r.h, ListObj(r.ent)),
                             val |-> HRef(Len(r.h) + 1), errs |-> {}] :
                         r \in {ResolveItems(h, sc, h[v.v].ent, 1)} })
      [] OTHER -> [h |-> h, val |-> v, errs |-> {}]

\* The objects of a StepContext: Input with a nested map, the output of step
\* a with a list, the map Steps (step b has no output) and Env.
ContextHeap ==
    << MapObj(("name" :> HStr("Test")) @@ ("cfg" :> HRef(2))),
       MapObj("n" :> HNum(1)),
       MapObj(("items" :> HRef(4)) @@ ("id" :> HNum(7))),
       ListObj(<<HStr("x")>>),
       [kind |-> "steps",
        ent |-> ("a" :> [status |-> "success", output |-> 3])
                @@ ("b" :> [status |-> "skipped", output |-> 0])],
       [kind |-> "env", ent |-> "HOME" :> "/root"] >>

HeapContext == [Input |-> 1, Steps |-> 5, Env |-> 6]

\* The strings and numbers tried as values of a declared input.
Scalars ==
    { HStr("no variables here"), HNum(42), HTpl(PIn(<<"name">>)),
      HTpl(PIn(<<"cfg">>)), HExpr(PIn(<<"name">>)), HExpr(PIn(<<>>)),
      HExpr(PIn(<<"cfg">>)), HExpr(PIn(<<"cfg", "n">>)),
      HExpr(PIn(<<"missing">>)), HExpr(POut("a", <<"items">>)),
      HExpr(POut("a", <<"nokey">>)), HExpr(POut("b", <<"x">>)),
      HExpr(POut("zz", <<"x">>)), HExpr(PStatus("a")), HExpr(PEnv("HOME")),
      HExpr(PEnv("NONE")), HExpr(PBad) }

\* The declared inputs tried: the map at address 7 with the keys a and b (b
\* may be missing); a may be the map at 8, b the list at 9, whose second item
\* is the map at 10.
DeclaredHeaps ==
    { ContextHeap \o << MapObj(top), MapObj("k" :> x),
                        ListObj(<<y, HRef(10)>>), MapObj("z" :> w) >> :
        top \in { ("a" :> va) @@ ("b" :> vb) :
                    va \in Scalars \cup {HRef(8)},
                    vb \in Scalars \cup {HRef(9)} }
                \cup { "a" :> va : va \in Scalars \cup {HRef(8)} },
        x \in { HExpr(PIn(<<"cfg">>)), HExpr(POut("zz", <<"x">>)) },
        y \in { HTpl(PIn(<<"name">>)), HExpr(PBad) },
        w \in { HExpr(POut("a", <<"items">>)), HNum(3) } }

InitPure ==
    /\ NoRun
    /\ call \in { [op |-> "ResolveMap", heap |-> h, sc |-> HeapContext,
                   m |-> 7] : h \in DeclaredHeaps }
    /\ ret = NoRet

\* What a call of ResolveMap returns: the value, or one of its errors.
Returns(r) ==
    IF r.errs = {} THEN { [val |-> r.val, err |-> <<>>] }
    ELSE { [val |-> HNil, err |-> e] : e \in r.errs }

\* sc.ResolveMap(m) is called and returns.
CallResolveMap ==
    /\ call.op = "ResolveMap" /\ ret = NoRet
    /\ \E o \in Returns(ResolveMapAt(call.heap, call.sc, call.m)) :
          ret' = [op |-> "ResolveMap",
                  heap |-> ResolveMapAt(call.heap, call.sc, call.m).h,
                  out |-> <<o>>]
    /\ UNCHANGED <<flow, pc, idx, mergeIdx, result, sctx, procs, results,
                   cancelled, hist, call, engine, threads>>

\* sc.ResolveMap(m) is called once more, on the heap the first call left.
CallResolveMapAgain ==
    /\ call.op = "ResolveMap" /\ ret # NoRet /\ Len(ret.out) = 1
    /\ \E o \in Returns(ResolveMapAt(ret.heap, call.sc, call.m)) :
          ret' = [ret EXCEPT
                    !.heap = ResolveMapAt(ret.heap, call.sc, call.m).h,
                    !.out = Append(@, o)]
    /\ UNCHANGED <<flow, pc, idx, mergeIdx, result, sctx, procs, results,
                   cancelled, hist, call, engine, threads>>

NextPure == CallResolveMap \/ CallResolveMapAgain

SpecPure == InitPure /\ [][NextPure]_vars

\* ----------------------------------------------------------------- claims
\* A step result that the on_error policy applies to.
Failing(sr) == sr.status \in {"failed", "error"}

\* The on_error runWithContext applies to the record named n: the step's own,
\* or the enclosing group marker's for a child of a group.
PolicyOf(n) == flow[n[1]].onError

IsAbort(oe) == oe \in {"", "abort"}

\* No condition of step n was evaluated, no input resolved, no connector run.
Untouched(n) == hist[n].whens = <<>> /\ hist[n].attempts = <<>>

Records == { result.steps[k] : k \in 1..Len(result.steps) }

RecordNames == [k \in 1..Len(result.steps) |-> result.steps[k].name]

\* A record of an ordinary (top-level, non-parallel) step that failed under
\* abort, whether written abort or left empty.
AbortedAt(k) ==
    /\ result.steps[k].name[2] = 0
    /\ Failing(result.steps[k])
    /\ IsAbort(PolicyOf(result.steps[k].name))

\* C1: once an ordinary step with on_error abort (or empty) is recorded failed
\* or error, Run has returned: the flow status is "failed", the flow error is
\* set and names that step, the step's record is the last of result.steps, and
\* no step declared after it has had a condition evaluated, an input resolved
\* or a connector executed.
C1_AbortStopsFlow ==
    \A k \in 1..Len(result.steps) :
        AbortedAt(k) =>
            /\ pc = "done" /\ result.completed
            /\ result.status = "failed"
            /\ result.error # NoError
            /\ result.error = FlowError(result.steps[k])
            /\ k = Len(result.steps)
            /\ \A m \in StepNames(flow) :
                   m[1] > result.steps[k].name[1] => Untouched(m)

\* C1's case: a step failed under abort and steps are declared after it.
C1_Witness ==
    \E k \in 1..Len(result.steps) :
        AbortedAt(k) /\ result.steps[k].name[1] < Len(flow)

\* A record of an ordinary step with on_error retry and a retry config that
\* is still failed or error when its retries are used up: every attempt was
\* made, so the record is not that of a backoff cut short by the context.
RetryExhaustedAt(k) ==
    LET sr == result.steps[k]
        step == flow[sr.name[1]]
    IN  /\ sr.name[2] = 0
        /\ HasRetryLoop(step)
        /\ Failing(sr)
        /\ sr.retries = maxRetries(step)
        /\ Len(hist[sr.name].attempts) = maxRetries(step) + 1

\* C2: a step with on_error retry that is still failed or error after its
\* retries are exhausted is handled as abort: the flow status is "failed", the
\* flow error is set, and no later step runs.
C2_RetryExhaustedAborts ==
    \A k \in 1..Len(result.steps) :
        RetryExhaustedAt(k) =>
            /\ result.status = "failed"
            /\ result.error # NoError
            /\ k = Len(result.steps)
            /\ \A m \in StepNames(flow) :
                   m[1] > result.steps[k].name[1] => Untouched(m)

\* The records that failed under continue, and under abort.
ContinueFailures ==
    { k \in 1..Len(result.steps) :
        Failing(result.steps[k]) /\ PolicyOf(result.steps[k].name) = "continue" }

AbortFailures ==
    { k \in 1..Len(result.steps) :
        Failing(result.steps[k]) /\ IsAbort(PolicyOf(result.steps[k].name)) }

\* C3: after a step failed under continue the flow goes on and its status is
\* "partial", whatever later steps succeed or are skipped, until a later step
\* aborts the flow, which makes it "failed" for good; a flow that was not
\* aborted has processed every step when Run returns.
C3_ContinueIsSticky ==
    ContinueFailures # {} =>
        /\ result.status = IF AbortFailures # {} THEN "failed" ELSE "partial"
        /\ \A k \in ContinueFailures : \A a \in AbortFailures : k < a
        /\ (AbortFailures # {} => pc = "done")
        /\ (pc = "done" /\ AbortFailures = {} =>
                RecordNames = Flatten(flow))

\* C3's case: a step failed under continue and a later step was recorded
\* success or skipped.
C3_Witness ==
    \E k \in ContinueFailures :
        \E m \in (k + 1)..Len(result.steps) :
            result.steps[m].status \in {"success", "skipped"}

\* The transition records one more step result.
Recorded == Len(result'.steps) = Len(result.steps) + 1

NewRecord == result'.steps[Len(result'.steps)]

\* C4: recording a step that failed under skip leaves the flow status and the
\* flow error as they were, keeps the earlier records, adds the step's record
\* to the result and to the context, and goes on with the next step.
C4_SkipLeavesStatus ==
    [][ (Recorded /\ Failing(NewRecord) /\ PolicyOf(NewRecord.name) = "skip") =>
            /\ result'.status = result.status
            /\ result'.error = result.error
            /\ SubSeq(result'.steps, 1, Len(result.steps)) = result.steps
            /\ NewRecord.name \in DOMAIN sctx' /\ sctx'[NewRecord.name] = NewRecord
            /\ pc' \in {"loop", "join"}
            /\ (idx' = idx + 1 \/ (idx' = idx /\ mergeIdx' = mergeIdx + 1)) ]_vars

\* C4's case: a step failed under skip while the flow was already partial, and
\* the step after it was processed.
C4_Witness ==
    \E k \in 1..Len(result.steps) :
        /\ Failing(result.steps[k]) /\ PolicyOf(result.steps[k].name) = "skip"
        /\ k < Len(result.steps)
        /\ result.status = "partial"

C6_RecordsInDeclarationOrder ==
    /\ Len(result.steps) <= Len(Flatten(flow))
    /\ RecordNames = SubSeq(Flatten(flow), 1, Len(result.steps))
    /\ (pc = "done" /\ result.status # "failed" => RecordNames = Flatten(flow))

\* C6's case: a finished run with the children of a group among its records
\* and a step after them.
C6_Witness ==
    /\ pc = "done"
    /\ \E k \in 1..Len(result.steps) :
           result.steps[k].name[2] = 2 /\ k < Len(result.steps)

\* The declaration of the step named n.
StepOf(n) == IF n[2] = 0 THEN flow[n[1]] ELSE flow[n[1]].parallel[n[2]]

\* The steps and group children declared before the top-level place of n.
Before(n) == { m \in StepNames(flow) : m[1] < n[1] }

\* The call of executeStepWithRetry for step n has returned or n is recorded.
Finished(n) ==
    \/ n \in DOMAIN sctx
    \/ \E p \in DOMAIN procs : procs[p].step.name = n /\ procs[p].phase = "done"

\* C7: when the condition or the input of an ordinary step is resolved, the
\* context's Steps map holds exactly the steps and group children declared
\* before it; a step enters the map only when its executeStepWithRetry has
\* returned; an entry of the map is never changed, and nothing of that step is
\* evaluated or executed afterwards.
C7_ContextHoldsEarlierSteps ==
    [][ \A n \in StepNames(flow) :
          /\ (n[2] = 0 /\ hist'[n] # hist[n]) => DOMAIN sctx = Before(n)
          /\ n \in DOMAIN sctx =>
                (n \in DOMAIN sctx' /\ sctx'[n] = sctx[n] /\ hist'[n] = hist[n])
          /\ (n \notin DOMAIN sctx /\ n \in DOMAIN sctx') =>
                \A p \in DOMAIN procs :
                    procs[p].step.name = n => procs[p].phase = "done" ]_vars

\* C7's case: an ordinary step resolved its input after a skipped step and a
\* step that failed under continue or skip.
C7_Witness ==
    \E n \in StepNames(flow) :
        /\ n[2] = 0 /\ hist[n].attempts # <<>> /\ hist[n].attempts[1].resolved
        /\ \E sr \in Records : sr.name[1] < n[1] /\ sr.status = "skipped"
        /\ \E sr \in Records : sr.name[1] < n[1] /\ Failing(sr)

\* The number of records of the steps declared before top-level step i.
PrefixLen(i) == Len(Flatten(SubSeq(flow, 1, i - 1)))

\* The records of the children of the group at i, in the order recorded.
GroupRecords(i) ==
    SubSeq(result.steps, PrefixLen(i) + 1,
           IF Len(result.steps) < PrefixLen(i) + Len(flow[i].parallel)
           THEN Len(result.steps) ELSE PrefixLen(i) + Len(flow[i].parallel))

Groups == { i \in 1..Len(flow) : flow[i].parallel # <<>> }

\* C8 as claimed: once the main thread has gone past the join of a group,
\* every sibling's result is in result.steps and in the context under the
\* sibling's name.
C8_AllSiblingsRecordedAsClaimed ==
    \A i \in Groups :
        (idx > i \/ (idx = i /\ pc = "done")) =>
            \A j \in 1..Len(flow[i].parallel) :
                LET n == flow[i].parallel[j].name
                IN  /\ PrefixLen(i) + j <= Len(result.steps)
                    /\ result.steps[PrefixLen(i) + j].name = n
                    /\ n \in DOMAIN sctx /\ sctx[n].name = n

\* C8, amended: while a sibling of a group is running the main thread records
\* nothing; after the join it appends the siblings' results to result.steps
\* and adds each sibling's own result to the context under the sibling's name,
\* in declaration order; it records all of them before any later step, unless
\* the group's policy aborts the flow at a failing sibling, whose record is
\* then the last.
C8_SiblingsMergedAfterJoin ==
    \A i \in Groups :
        LET ch == flow[i].parallel
            recs == GroupRecords(i)
        IN  /\ (idx = i /\ pc = "join"
                  /\ \E p \in DOMAIN procs : procs[p].phase # "done") =>
                    /\ Len(result.steps) = PrefixLen(i)
                    /\ DOMAIN sctx = Before(ch[1].name)
                    /\ mergeIdx = 1
            /\ idx < i => recs = <<>>
            /\ \A k \in 1..Len(recs) :
                  /\ recs[k].name = ch[k].name
                  /\ ch[k].name \in DOMAIN sctx /\ sctx[ch[k].name] = recs[k]
                  /\ (idx = i => recs[k] = results[k])
            /\ (idx = i /\ pc = "join") => Len(recs) = mergeIdx - 1
            /\ idx > i => Len(recs) = Len(ch)
            /\ (idx = i /\ pc = "done") =>
                  /\ recs # <<>>
                  /\ Failing(recs[Len(recs)]) /\ IsAbort(flow[i].onError)
                  /\ Len(result.steps) = PrefixLen(i) + Len(recs)

\* C8's case: a group was merged and a later step resolved a reference to a
\* sibling's output.
C8_Witness ==
    \E i \in Groups :
        /\ idx > i
        /\ \E n \in StepNames(flow) :
              /\ n[1] > i /\ hist[n].attempts # <<>>
              /\ \E e \in hist[n].attempts[1].res : e[1][1] = i /\ e[2] = "ok"

\* What the evaluations of group child n saw of its siblings: no reference to
\* a sibling resolved to a value, no condition on a sibling's status was true.
SawNoSibling(h, n) ==
    /\ \A a \in 1..Len(h.attempts) :
          \A e \in h.attempts[a].res :
              (e[1][1] = n[1] /\ e[1][2] # 0) => e[2] = "not_found"
    /\ (StepOf(n).when.kind = "status" /\ StepOf(n).when.step[1] = n[1]) =>
          \A a \in 1..Len(h.whens) : h.whens[a] # "true"

\* C9: from the launch of a group's workers to the join the context's Steps
\* map and the flow result are not modified; a worker's step changes no slot
\* of the results array but its own; no evaluation of a sibling (conditions,
\* inputs, retries) sees another sibling's result: a reference to a sibling
\* resolves as a step without a result.
C9_SiblingsIsolated ==
    [][ (pc = "join" /\ \E p \in DOMAIN procs : procs[p].phase # "done") =>
          /\ sctx' = sctx /\ result' = result
          /\ \A p \in DOMAIN procs : \A q \in DOMAIN procs :
                (procs'[p] # procs[p] /\ q # p) =>
                    (results'[q] = results[q] /\ procs'[q] = procs[q])
          /\ (results' # results => procs' # procs)
          /\ \A n \in StepNames(flow) :
                n[2] # 0 => SawNoSibling(hist'[n], n) ]_vars

\* C9's case: a sibling has finished with success while another sibling, whose
\* input refers to it, found no result for it and is about to retry.
C9_Witness ==
    /\ pc = "join"
    /\ \E p \in DOMAIN procs : \E q \in DOMAIN procs :
          /\ procs[q].phase = "done" /\ procs[q].sr.status = "success"
          /\ procs[p].phase = "backoff"
          /\ \E e \in hist[procs[p].step.name].attempts[1].res :
                e[1] = procs[q].step.name /\ e[2] = "not_found"

Min(a, b) == IF a < b THEN a ELSE b

\* The index of the first attempt of att that ends neither failed nor error;
\* none stands for "there is none".
FirstSuccess(att, none) ==
    IF \E a \in 1..Len(att) : att[a].status \notin {"failed", "error"}
    THEN CHOOSE a \in 1..Len(att) :
           /\ att[a].status \notin {"failed", "error"}
           /\ \A b \in 1..(a - 1) : att[b].status \in {"failed", "error"}
    ELSE none

Executions(att) == Cardinality({ a \in 1..Len(att) : att[a].executed })

\* The steps C10 is about: on_error retry with max_retries >= 1.
RetrySteps ==
    { n \in StepNames(flow) :
        HasRetryLoop(StepOf(n)) /\ StepOf(n).retry.MaxRetries >= 1 }

\* C10 as claimed: without cancellation the connector of a finished retry step
\* was executed exactly min(N+1, k) times.
C10_ExecutionsAsClaimed ==
    \A n \in RetrySteps :
        LET N == StepOf(n).retry.MaxRetries
            att == hist[n].attempts
        IN  (Finished(n) /\ ~cancelled /\ att # <<>>) =>
                Executions(att) = Min(N + 1, FirstSuccess(att, N + 2))

\* C10, amended: a retry step is attempted at most N+1 times and never again
\* after an attempt that ended neither failed nor error; without cancellation
\* it is attempted exactly min(N+1, k) times; each attempt executes the
\* connector at most once, and exactly once when the connector is registered
\* and the input resolves.
C10_RetryBound ==
    \A n \in RetrySteps :
        LET N == StepOf(n).retry.MaxRetries
            att == hist[n].attempts
        IN  /\ Len(att) <= N + 1
            /\ Executions(att) <= Len(att)
            /\ \A a \in 1..(Len(att) - 1) : att[a].status \in {"failed", "error"}
            /\ (Finished(n) /\ ~cancelled /\ att # <<>>) =>
                  Len(att) = Min(N + 1, FirstSuccess(att, N + 2))
            /\ \A a \in 1..Len(att) :
                  att[a].executed <=>
                      /\ StepOf(n).connector \in Registered
                      /\ \A e \in att[a].res : e[2] = "ok"

\* C10's case: a finished retry step with N = 2 that failed twice and then
\* succeeded, and one that failed three times.
C10_Witness ==
    \E n \in RetrySteps :
        /\ StepOf(n).retry.MaxRetries = 2 /\ Finished(n) /\ ~cancelled
        /\ Executions(hist[n].attempts) = 3

\* The executeStep calls made for step n after the first one.
RetriesPerformed(n) ==
    IF hist[n].attempts = <<>> THEN 0 ELSE Len(hist[n].attempts) - 1

\* C11: the retries field of every recorded StepResult is the number of retry
\* attempts performed for that step: 0 without a retry loop or when the first
\* attempt succeeded, a when the a-th retry succeeded, max_retries when the
\* retries are exhausted, the number performed so far when the loop is ended
\* by cancellation.
C11_RetriesCountPerformed ==
    \A k \in 1..Len(result.steps) :
        result.steps[k].retries = RetriesPerformed(result.steps[k].name)

\* The transition invokes a connector's Execute for step n.
Executes(n) ==
    /\ Len(hist'[n].attempts) = Len(hist[n].attempts) + 1
    /\ hist'[n].attempts[Len(hist'[n].attempts)].executed

\* C12: no connector's Execute is invoked for a step that was started after
\* the run's context was cancelled, whatever the on_error policies are.
C12_NoExecuteAfterCancel ==
    [][ \A p \in DOMAIN procs :
          Executes(procs[p].step.name) => ~procs[p].late ]_vars

Last(q) == q[Len(q)]

\* C13: an ordinary step whose condition evaluates to false is recorded
\* "skipped" and added to the context, the flow status and error stay as they
\* were, no call of executeStepWithRetry is made and the loop goes on with the
\* next step; no step whose condition was false ever has its input resolved or
\* its connector run, and its entry in the context has status "skipped", which
\* a reference to its status resolves to; an ordinary step with an empty
\* condition is always passed to executeStepWithRetry, and a recorded step
\* with an empty condition has run.
C13_FalseConditionSkips ==
    [][ /\ (pc = "loop" /\ idx <= Len(flow) /\ flow[idx].parallel = <<>>) =>
              LET n == flow[idx].name
              IN  /\ (hist'[n].whens # hist[n].whens
                        /\ Last(hist'[n].whens) = "false") =>
                          /\ Recorded
                          /\ NewRecord = StepResult(n, "skipped", "", NilOutput, 0)
                          /\ SubSeq(result'.steps, 1, Len(result.steps)) = result.steps
                          /\ result'.status = result.status
                          /\ result'.error = result.error
                          /\ sctx' = AddStepResult(sctx, n, NewRecord)
                          /\ pc' = "loop" /\ idx' = idx + 1
                          /\ procs' = procs
                  /\ (flow[idx].when.kind = "none" /\ <<pc, idx>>' # <<pc, idx>>) =>
                          /\ pc' = "exec" /\ idx' = idx
                          /\ procs'[0].step = flow[idx]
                          /\ procs'[0].phase = "first"
                          /\ result' = result /\ sctx' = sctx
        /\ \A n \in StepNames(flow) :
              /\ (\E a \in 1..Len(hist'[n].whens) : hist'[n].whens[a] = "false") =>
                    /\ hist'[n].attempts = <<>>
                    /\ n \in DOMAIN sctx' =>
                          /\ sctx'[n].status = "skipped"
                          /\ resolvePath(sctx', Ref(n, "status")) = "ok"
              /\ (StepOf(n).when.kind = "none" /\ n \in DOMAIN sctx') =>
                    /\ hist'[n].attempts # <<>>
                    /\ sctx'[n].status # "skipped" ]_vars

\* C13's case: an ordinary step was skipped by a false condition while the
\* flow was not a success, and the step after it, whose condition compares the
\* skipped step's status to "success", was skipped in its turn.
C13_Witness ==
    \E k \in 1..(Len(result.steps) - 1) :
        LET sr == result.steps[k]
            nx == result.steps[k + 1]
        IN  /\ sr.name[2] = 0 /\ sr.status = "skipped"
            /\ hist[sr.name].whens = <<"false">>
            /\ StepOf(sr.name).when.kind = "false"
            /\ StepOf(nx.name).when = WhenStatus(sr.name, "success")
            /\ hist[nx.name].whens = <<"false">>
            /\ nx.status = "skipped"

\* ValidateFlow has returned; the steps it was given.
Validated == call.op = "ValidateFlow" /\ ret # NoRet

VS == call.flow.steps

\* The steps are ordinary steps with names of their own.
WellNamed ==
    \A i \in 1..Len(VS) :
        /\ VS[i].name # NoName /\ VS[i].parallel = <<>>
        /\ \A k \in 1..Len(VS) : VS[k].name = VS[i].name => k = i

\* C16: when the input of step S[i] holds, in a string at any depth of maps
\* and lists, a reference to a step S[j] with j >= i, ValidateFlow returns an
\* error with an issue that mentions S[j]; a reference to a step before S[i]
\* raises no issue.
C16_ForwardRefsRejected ==
    (Validated /\ WellNamed) =>
        \A i \in 1..Len(VS) : \A r \in VS[i].refs : \A j \in 1..Len(VS) :
            VS[j].name = r.step =>
                IF j >= i
                THEN \E e \in ret.issues : e.ref.step = VS[j].name
                ELSE \A e \in ret.issues : e.ref # r

\* The places of VS that hold a group.
VGroups == { i \in 1..Len(VS) : VS[i].parallel # <<>> }

\* C17: a group is one position for the reference check: a reference of a
\* child to a child of the same group is reported, and a reference of a step
\* declared after the group to a child of the group raises no issue.
C17_GroupIsOnePosition ==
    Validated =>
        \A g \in VGroups :
            LET ch == VS[g].parallel
                names == { ch[k].name : k \in 1..Len(ch) }
            IN  /\ \A k \in 1..Len(ch) : \A r \in ch[k].refs :
                      r.step \in names => \E e \in ret.issues : e.ref = r
                /\ \A i \in (g + 1)..Len(VS) : \A r \in VS[i].refs :
                      (VS[i].name # NoName /\ r.step \in names) =>
                          \A e \in ret.issues : e.ref # r

\* C18: the on_error of a step is reported exactly when it is none of "",
\* abort, continue, skip, and retry with a retry config of max_retries >= 1.
C18_OnErrorValues ==
    Validated =>
        \A i \in 1..Len(VS) :
            VS[i].name # NoName =>
                ((\E e \in ret.issues : e.kind = "invalid_on_error" /\ e.at = i)
                 <=> ~(\/ VS[i].onError \in {"", "abort", "continue", "skip"}
                       \/ /\ VS[i].onError = "retry"
                          /\ VS[i].retry.present
                          /\ VS[i].retry.MaxRetries >= 1))

\* Some property marked required in the flow's input schema is not a key of
\* the input map.
RequiredMissing ==
    /\ ~call.schema.isNil
    /\ \E n \in DOMAIN call.schema.props :
          call.schema.props[n].required /\ n \notin DOMAIN call.input

\* C14: every flow of which the engine executes a step has passed
\* ValidateFlow: in a run started by the webhook handler or the tool server no
\* connector is executed for a step of a flow that ValidateFlow rejects
\* (stated for the flows of ordinary steps without retry, about which the
\* validator and the engine agree).
C14_ValidatedBeforeRun ==
    (/\ call.op \in {"handleTrigger", "callTool"}
     /\ \A i \in 1..Len(flow) :
           flow[i].parallel = <<>> /\ flow[i].onError # "retry") =>
        ((\E n \in StepNames(flow) : Executions(hist[n].attempts) > 0) =>
            ValidateFlow([name |-> "f", steps |-> flow]) = {})

\* C15: Run and RunWithSecrets return an error and no FlowResult, without
\* touching any step, exactly when a required property of the input schema is
\* not a key of the input; a key with a null value, keys outside the schema
\* and a flow without schema never make them fail.
C15_RequiredInputChecked ==
    pc # "call" =>
        /\ (ret # NoRet /\ ret.err) <=> RequiredMissing
        /\ RequiredMissing =>
              /\ pc = "done"
              /\ result.status = "" /\ result.steps = <<>> /\ ~result.completed
              /\ \A n \in StepNames(flow) : Untouched(n)
              /\ sctx = [n \in {} |-> ZeroResult]
        /\ ~RequiredMissing =>
              /\ ret = NoRet
              /\ result.status \in {"success", "partial", "failed"}
              /\ pc = "done" => (result.completed /\ result.steps # <<>>)

\* C15's case: a schema with a required and an optional property; the input
\* has the required key with a null value and a key outside the schema, not
\* the optional one; the run has finished with a recorded step.
C15_Witness ==
    /\ pc = "done" /\ ret = NoRet /\ result.steps # <<>>
    /\ ~call.schema.isNil
    /\ DOMAIN call.schema.props = {"a", "b"}
    /\ call.schema.props["a"].required /\ ~call.schema.props["b"].required
    /\ DOMAIN call.input = {"a", "x"} /\ call.input["a"] = "null"

\* The sub-flow runs a call of executeFlowStep completed: the step result and
\* what Run returned, for each of the two parent runs where Run returned a
\* result.
SubRuns ==
    IF ret = NoRet \/ ret.op # "executeFlowStep" THEN {}
    ELSE { ret.out[i] : i \in { j \in 1..2 : ret.out[j].called
                                             /\ ~ret.out[j].run.err } }

\* The places of a sub-flow's step results whose output has key k.
Holders(steps, k) ==
    { j \in 1..Len(steps) :
        ~steps[j].output.isNil /\ k \in DOMAIN steps[j].output.map }

\* Everything the steps of a sub-flow ran read from the context Run made.
ChildRead(o) ==
    [input |-> o.run.sctx.Input, steps |-> o.run.sctx.Steps,
     secrets |-> o.run.sctx.Secrets]

\* C19: a sub-flow runs in a fresh context: its input is the parent step's
\* resolved input without the key flow, and its step results and its secrets
\* start empty; two parent runs whose flow step passes the same input get the
\* same sub-flow result, whatever else the parent runs differ in.
C19_SubFlowFreshContext ==
    (ret # NoRet /\ ret.op = "executeFlowStep") =>
        /\ \A i \in 1..2 :
              ret.out[i].called =>
                 LET c == ret.out[i].run.sctx
                     in == call.step.input
                 IN  /\ DOMAIN c.Input = DOMAIN in \ {"flow"}
                     /\ \A k \in DOMAIN c.Input :
                           c.Input[k] = resolveValue(call.sctx[i], in[k]).val
                     /\ DOMAIN c.Steps = {}
                     /\ DOMAIN c.Secrets = {}
        /\ (/\ ret.out[1].called /\ ret.out[2].called
            /\ ret.out[1].childInput = ret.out[2].childInput) =>
               /\ ret.out[1].run = ret.out[2].run
               /\ ret.out[1].sr = ret.out[2].sr

\* Two parent runs that differ in the input field not passed, in the result of
\* the earlier step and in the secrets execute a flow step that passes one
\* input field to a sub-flow that tries to read all three, and the sub-flow
\* ran its steps.
C19_Witness ==
    /\ ret # NoRet /\ ret.op = "executeFlowStep"
    /\ call.step.flow = "peek"
    /\ DOMAIN call.step.input = {"name", "flow"}
    /\ call.step.input["name"] = FromInput("name")
    /\ call.sctx[1].Input["hidden"] # call.sctx[2].Input["hidden"]
    /\ call.sctx[1].Steps # call.sctx[2].Steps
    /\ call.sctx[1].Secrets # call.sctx[2].Secrets
    /\ \A i \in 1..2 :
          /\ ret.out[i].called /\ ~ret.out[i].run.err
          /\ Len(ret.out[i].run.result.steps) = 4
          /\ DOMAIN ret.out[i].childInput = {"name"}

\* C20: after a sub-flow step completes, the parent step's status is the
\* sub-flow's status, its output key flow_status is that status, its output
\* key steps is the number of step results of the sub-flow, and every other
\* output key holds the value of the last child step whose output has it.
C20_SubFlowOutput ==
    \A o \in SubRuns :
       LET child == o.run.result
           out == o.sr.output
           keys == { k \in {"flow_status", "steps", "message", "stdout",
                            "stderr", "exit_code"} :
                       Holders(child.steps, k) # {} }
       IN  /\ o.sr.status = child.status
           /\ ~out.isNil
           /\ DOMAIN out.map = keys \cup {"flow_status", "steps"}
           /\ out.map["flow_status"] = Str(child.status)
           /\ out.map["steps"] = Num(Len(child.steps))
           /\ \A k \in keys \ {"flow_status", "steps"} :
                 LET j == CHOOSE m \in Holders(child.steps, k) :
                             \A n \in Holders(child.steps, k) : n <= m
                 IN  out.map[k] = child.steps[j].output.map[k]

\* C21: every step result recorded by a run has a status among success,
\* failed, error and skipped, sub-flow steps included: the result of the flow
\* step and the results of the steps of the sub-flow it ran.
C21_StepStatuses ==
    (ret # NoRet /\ ret.op = "executeFlowStep") =>
        \A i \in 1..2 :
           /\ ret.out[i].sr.status \in {"success", "failed", "error", "skipped"}
           /\ (ret.out[i].called /\ ~ret.out[i].run.err) =>
                 \A k \in 1..Len(ret.out[i].run.result.steps) :
                    ret.out[i].run.result.steps[k].status
                       \in {"success", "failed", "error", "skipped"}

\* The names of the first k records of the result.
RecordedNames(k) == [j \in 1..k |-> result.steps[j].name]

\* C22: DryRun never invokes a connector's Execute and never evaluates a
\* condition, loads or runs a sub-flow; when ValidateFlow or ValidateInput
\* fails it returns an error and no result; otherwise it returns status
\* dry_run, also when a step has resolve_error, with one record per step in
\* declaration order, the children of a group in place of the group.
C22_DryRunOnlyResolves ==
    call.op = "DryRun" =>
        LET invalid == \/ ValidateFlow([name |-> call.name, steps |-> flow]) # {}
                       \/ ValidateInput(call.schema, call.input) # {}
            names == Flatten(flow)
            n == Len(result.steps)
        IN  /\ \A s \in StepNames(flow) :
                  hist[s].attempts = <<>> /\ hist[s].whens = <<>>
            /\ procs = NoProcs /\ results = <<>>
            /\ n <= Len(names) /\ RecordedNames(n) = SubSeq(names, 1, n)
            /\ \A j \in 1..n :
                  result.steps[j].status \in {"dry_run", "resolve_error"}
            /\ pc # "call" =>
                  IF invalid
                  THEN /\ pc = "done" /\ ret = [op |-> "DryRun", err |-> TRUE]
                       /\ result.status = "" /\ n = 0
                  ELSE /\ result.status = "dry_run"
                       /\ result.error = NoError
                       /\ pc = "done" =>
                             /\ ret = [op |-> "DryRun", err |-> FALSE]
                             /\ RecordedNames(n) = names
                             /\ result.completed

\* A dry run of a flow with a group has returned: the group's children have
\* records, the marker has none, and a step has resolve_error.
C22_Witness ==
    /\ call.op = "DryRun" /\ pc = "done" /\ ret = [op |-> "DryRun", err |-> FALSE]
    /\ \E i \in 1..Len(flow) : Len(flow[i].parallel) = 2
    /\ Len(result.steps) > Len(flow)
    /\ \E j \in 1..Len(result.steps) : result.steps[j].status = "resolve_error"
    /\ result.status = "dry_run"

\* The steps declared before the step named n, children of groups included.
DeclaredBefore(n) ==
    LET names == Flatten(flow)
        k == CHOOSE j \in 1..Len(names) : names[j] = n
    IN  { names[j] : j \in 1..(k - 1) }

\* C23: in DryRun a step whose input references only steps declared before it,
\* by output field or by status, is reported with status dry_run.
C23_DryRunRefsResolve ==
    call.op = "DryRun" =>
        \A j \in 1..Len(result.steps) :
           LET s == CHOOSE x \in { Head(DryList(flow[i])) : i \in 1..Len(flow) }
                               \cup { Last(DryList(flow[i])) : i \in 1..Len(flow) } :
                         x.name = result.steps[j].name
           IN  (s.refs # {}
                /\ \A r \in s.refs : r.step \in DeclaredBefore(s.name)) =>
                   result.steps[j].status = "dry_run"

\* The call thread t is at.
CallOf(t) == threads[t].prog[threads[t].k]

\* C24: Register fails when the name is already registered and leaves the
\* registry unchanged, and otherwise maps the name to the connector; a name
\* stays mapped to the connector registered first, so a plugin never replaces
\* a built-in, and no name is ever removed.
C24_RegisterKeepsFirst ==
    [][ call.op = "Registry" =>
          /\ \A n \in DOMAIN engine.connectors :
                /\ n \in DOMAIN engine'.connectors
                /\ engine'.connectors[n] = engine.connectors[n]
          /\ \A t \in DOMAIN threads :
                (threads[t].pc = "checked" /\ threads'[t].pc = "ret") =>
                   LET c == CallOf(t).c
                   IN  IF c.name \in DOMAIN engine.connectors
                       THEN /\ ~threads'[t].val.ok
                            /\ engine'.connectors = engine.connectors
                       ELSE /\ threads'[t].val.ok
                            /\ DOMAIN engine'.connectors
                                  = DOMAIN engine.connectors \cup {c.name}
                            /\ engine'.connectors[c.name] = c ]_vars

\* A plugin named like a built-in was refused after the built-ins were
\* registered, another plugin was registered, and the built-in is still there.
C24_Witness ==
    /\ call.op = "Registry"
    /\ \E t \in DOMAIN threads :
          \E j \in 1..Len(threads[t].rets) :
             /\ threads[t].prog[j] = RegisterCall(Plugin("log", 1))
             /\ ~threads[t].rets[j].ok
    /\ \E t \in DOMAIN threads :
          \E j \in 1..Len(threads[t].rets) :
             /\ threads[t].prog[j].op = "Register"
             /\ threads[t].prog[j].name = "ext"
             /\ threads[t].rets[j].ok
    /\ "ext" \in DOMAIN engine.connectors
    /\ engine.connectors["log"] = Builtin("log")

\* The calls of Register for name n that returned without an error.
Succeeded(n) ==
    UNION { { <<t, j>> : j \in { i \in 1..Len(threads[t].rets) :
                                   /\ threads[t].prog[i].op = "Register"
                                   /\ threads[t].prog[i].name = n
                                   /\ threads[t].rets[i].ok } } :
            t \in DOMAIN threads }

\* The names some thread registers, and whether every thread is done.
NamesRegistered ==
    UNION { { threads[t].prog[j].name :
                j \in { i \in 1..Len(threads[t].prog) :
                          threads[t].prog[i].op = "Register" } } :
            t \in DOMAIN threads }

AllReturned ==
    \A t \in DOMAIN threads : threads[t].k > Len(threads[t].prog)

\* C25: under every interleaving the registry behaves as if the calls ran one
\* at a time: the write lock excludes every other holder and only Register
\* holds it; of the calls of Register for a name at most one succeeds, its
\* connector is the one mapped, and when all calls have returned every name a
\* thread registered is mapped, by exactly one successful call unless the
\* name was there from the start; a Get that starts after Has returned true
\* for its name finds the connector mapped to that name.
C25_RegistrySerial ==
    call.op = "Registry" =>
        /\ engine.mu.w # 0 => engine.mu.r = {}
        /\ \A t \in DOMAIN threads :
              /\ engine.mu.w = t <=>
                    /\ threads[t].k <= Len(threads[t].prog)
                    /\ CallOf(t).op = "Register"
                    /\ threads[t].pc # "call"
              /\ t \in engine.mu.r <=>
                    /\ threads[t].k <= Len(threads[t].prog)
                    /\ CallOf(t).op # "Register"
                    /\ threads[t].pc # "call"
              /\ (/\ threads[t].k <= Len(threads[t].prog)
                  /\ CallOf(t).op = "Get" /\ threads[t].pc = "ret"
                  /\ CallOf(t).name \in threads[t].known) =>
                    /\ threads[t].val.ok
                    /\ threads[t].val.c = engine.connectors[CallOf(t).name]
        /\ \A n \in NamesRegistered :
              /\ Cardinality(Succeeded(n)) <= 1
              /\ \A x \in Succeeded(n) :
                    /\ n \in DOMAIN engine.connectors
                    /\ engine.connectors[n] = threads[x[1]].prog[x[2]].c
              /\ AllReturned =>
                    /\ n \in DOMAIN engine.connectors
                    /\ Succeeded(n) = {} =>
                          /\ "http" \in DOMAIN engine.connectors
                          /\ n \in Registered

\* Two threads registered different plugins under one name at the same time
\* and the second thread's call succeeded; the first thread's failed.
C25_Witness ==
    /\ call.op = "Registry" /\ AllReturned
    /\ Len(threads) = 2
    /\ threads[1].prog = << RegisterCall(Plugin("ext", 1)) >>
    /\ threads[2].prog = << RegisterCall(Plugin("ext", 2)) >>
    /\ threads[2].rets[1].ok /\ ~threads[1].rets[1].ok
    /\ engine.connectors["ext"] = Plugin("ext", 2)

\* C26: concurrent runs on one Engine do not interfere: a run's context has
\* the run's own input and only step results that are in the run's own
\* result, its records are of its own flow's steps, and when it has returned
\* its error or result is what Run gives for its flow and input alone.
C26_RunsDoNotInterfere ==
    call.op = "Runs" =>
        \A t \in DOMAIN threads :
           LET r == threads[t]
               alone == Run(EngineOf(TRUE), r.f, r.input)
           IN  /\ r.pc = "loop" => r.sc.Input = r.input
               /\ \A n \in DOMAIN r.sc.Steps :
                     \E j \in 1..Len(r.res.steps) :
                        r.res.steps[j].name = n /\ r.res.steps[j] = r.sc.Steps[n]
               /\ \A j \in 1..Len(r.res.steps) :
                     /\ j <= Len(r.f.steps)
                     /\ r.res.steps[j] = alone.result.steps[j]
               /\ r.pc = "done" =>
                     /\ r.err = alone.err
                     /\ ~r.err => r.res = alone.result

\* Two runs of the same flow with different inputs are both in their loop
\* with one step recorded each, and the records differ.
C26_Witness ==
    /\ call.op = "Runs" /\ Len(threads) >= 2
    /\ threads[1].f = threads[2].f
    /\ threads[1].input # threads[2].input
    /\ threads[1].pc = "loop" /\ threads[2].pc = "loop"
    /\ Len(threads[1].res.steps) = 1 /\ Len(threads[2].res.steps) = 1
    /\ threads[1].res.steps[1].status # threads[2].res.steps[1].status
    /\ Len(threads[1].f.steps) = 2
\* The value stored at a path of the input or of a step's output: the set of
\* it, empty when nothing is stored there.
StoredAt(input, x) ==
    CASE x.root = "input" ->
           IF x.a \notin DOMAIN input THEN {}
           ELSE IF x.b = "" THEN {input[x.a]}
           ELSE IF input[x.a].t = "map" /\ x.b \in DOMAIN input[x.a].v
                THEN {input[x.a].v[x.b]}
                ELSE {}
      [] x.root = "steps" /\ x.b # "status" ->
           IF /\ x.a \in DOMAIN ResolveSteps
              /\ ~ResolveSteps[x.a].output.isNil
              /\ x.b \in DOMAIN ResolveSteps[x.a].output.map
           THEN {ResolveSteps[x.a].output.map[x.b]}
           ELSE {}
      [] OTHER -> {}

\* The string of a call was resolved.
Resolved == call.op = "resolveString" /\ ret # NoRet

\* C27: a string that is exactly one expression without a pipe resolves to the
\* value stored at its path itself, with its type: a number stays a number, a
\* boolean a boolean, a map a map, for an input field and for a step output.
C27_WholeExpressionKeepsType ==
    Resolved =>
      \A x \in ResolvePaths :
         call.s = Expr(x, "") =>
            \A val \in StoredAt(call.input, x) : ret.out = Found(val)

\* The number 42 of a step's output came back as a number.
C27_Witness ==
    /\ Resolved
    /\ call.s = Expr(FromStep("s1", "count"), "")
    /\ ret.out = Found(Num(42))
\* The string of the call is prefix + "${{ input.k }}" + suffix.
Surrounded(pre, post) ==
    call.s = pre \o Expr(FromInput("k"), "") \o post

NoOpen(text) == \A i \in 1..Len(text) : text[i].k # "open"

C28_WitnessTwo ==
    /\ Resolved
    /\ call.input = "k" :> Num(7)
    /\ call.s = Expr(FromInput("k"), "") \o <<Text("a ")>>
                  \o Expr(FromStep("s1", "count"), "")
    /\ ret.out = Found(Str("7a 42"))
\* The paths that name nothing: of the input, of the environment, and of the
\* recorded steps.
MissingInput(input) ==
    {x \in ResolvePaths : x.root = "input" /\ StoredAt(input, x) = {}}
MissingEnv == {x \in ResolvePaths : x.root = "env" /\ x.a \notin DOMAIN ProcessEnv}
MissingStep ==
    {x \in ResolvePaths :
        x.root = "steps" /\ x.b # "status" /\ StoredAt(NoEntries, x) = {}}

\* C29: a reference to a missing input field, at any depth and through a
\* value that is no object, or to an unset environment variable resolves to ""
\* without error, alone and inside text; a reference to a missing field of a
\* recorded step's output, or to a step with no recorded result, is an error.
C29_MissingReferences ==
    Resolved =>
      /\ \A x \in MissingInput(call.input) \cup MissingEnv :
            /\ call.s = Expr(x, "") => ret.out = Found(Str(""))
            /\ call.s = <<Text("a ")>> \o Expr(x, "")
                 => ret.out = Found(Str("a "))
      /\ \A x \in MissingStep :
            \A pre \in {<<>>, <<Text("a ")>>} :
               call.s = pre \o Expr(x, "") => ret.out.err

\* input.k.n, with a string at input.k, resolved to "".
C29_Witness ==
    /\ Resolved
    /\ call.input = "k" :> Str("ab")
    /\ call.s = Expr(FromInputAt("k", "n"), "")
    /\ ret.out = Found(Str(""))

\* A field that the output of s1 does not have was an error.
C29_WitnessStep ==
    /\ Resolved
    /\ call.s = Expr(FromStep("s1", "zz"), "")
    /\ ret.out.err
C30_WitnessNil ==
    /\ Resolved
    /\ call.secrets = NilSecrets
    /\ call.s = Expr(FromSecret("KEY"), "")
    /\ ret.out = Found(Str(""))
\* The handler answered a request.
Answered == call.op = "handleTrigger" /\ ret # NoRet

\* A body that is valid JSON: exactly one JSON value.
ValidJSON(body) == Len(body) = 1 /\ Head(body).j # "junk"

\* C31: the webhook handler answers 405 to a request that is not a POST, 404
\* to a POST on a path with no flow, 400 when the body is not valid JSON or
\* the input fails validation, 500 when the run ends failed and 200 for every
\* other flow result; a flow is run only in the last two cases.
C31_WebhookCodes ==
    Answered =>
      LET out == ret.out
      IN  /\ call.method # "POST" => out.code = 405
          /\ call.method = "POST" /\ call.path \notin DOMAIN Routes
               => out.code = 404
          /\ call.method = "POST" /\ call.path \in DOMAIN Routes
               /\ ~ValidJSON(call.body)
               => out.code = 400
          /\ out.ran => out.code = IF out.run.result.status = "failed"
                                   THEN 500 ELSE 200
          /\ out.code \in {200, 500} <=> out.ran
\* What the records res and the history h say of the engine-side failures:
\* a condition that failed to evaluate, a connector that is not registered, an
\* input that did not resolve and an Execute that returned an error are
\* recorded as "error" with a message, and in the first three the connector's
\* Execute was not invoked.
EngineFailures(res, h) ==
    \A k \in 1..Len(res.steps) :
       LET sr == res.steps[k]
           att == h[sr.name].attempts
           whens == h[sr.name].whens
           isError == sr.status = "error" /\ sr.error # ""
       IN  /\ whens # <<>> /\ Last(whens) = "error"
                => isError /\ att = <<>>
           /\ StepOf(sr.name).connector \notin Registered /\ att # <<>>
                => isError /\ \A a \in 1..Len(att) : ~att[a].executed
           /\ \A a \in 1..Len(att) :
                 (att[a].resolved /\ \E r \in att[a].res : r[2] # "ok")
                    => ~att[a].executed /\ att[a].status = "error"
           /\ att # <<>> /\ ~Last(att).executed => isError
           /\ att # <<>> /\ Last(att).executed /\ Last(att).status = "error"
                => isError

\* C32: an engine-side failure is recorded as status "error" with an error
\* message, without Execute being invoked when the connector is missing, the
\* input does not resolve or the condition fails to evaluate; and a record
\* with status "error" meets the on_error policy as one with "failed" does:
\* abort ends the flow as failed, continue makes it partial and goes on, skip
\* leaves the flow status.
C32_EngineErrors ==
    [][ /\ EngineFailures(result', hist')
        /\ Recorded /\ Failing(NewRecord) =>
             LET oe == PolicyOf(NewRecord.name)
             IN  /\ IsAbort(oe) => /\ result'.status = "failed"
                                   /\ result'.error = FlowError(NewRecord)
                                   /\ pc' = "done"
                 /\ oe = "continue" => /\ result'.status = "partial"
                                       /\ pc' # "done"
                 /\ oe = "skip" => /\ result'.status = result.status
                                   /\ pc' # "done" ]_vars

\* An input that did not resolve was recorded as "error" under continue, and
\* the flow became partial.
C32_Witness ==
    \E k \in 1..Len(result.steps) :
       LET sr == result.steps[k]
           att == hist[sr.name].attempts
       IN  /\ sr.status = "error"
           /\ att # <<>> /\ Last(att).resolved /\ ~Last(att).executed
           /\ PolicyOf(sr.name) = "continue"
           /\ result.status = "partial"
\* C33: the record of a child of a parallel group meets the on_error of the
\* group, abort when it is empty, whatever the child's own on_error is; the
\* children are recorded, and the policy applied, in declaration order; and
\* when the group's on_error is continue every child is recorded and the flow
\* is partial once a child has failed.
C33_GroupPolicy ==
    [][ (Recorded /\ NewRecord.name[2] # 0) =>
          LET i == NewRecord.name[1]
              j == NewRecord.name[2]
              oe == flow[i].onError
              ch == flow[i].parallel
              n == Len(result'.steps)
          IN  /\ i = idx /\ j = mergeIdx
              /\ Failing(NewRecord) /\ IsAbort(oe)
                   => /\ result'.status = "failed"
                      /\ result'.error = FlowError(NewRecord)
                      /\ pc' = "done"
              /\ Failing(NewRecord) /\ oe = "continue"
                   => result'.status = "partial" /\ pc' # "done"
              /\ Failing(NewRecord) /\ oe = "skip"
                   => result'.status = result.status /\ pc' # "done"
              /\ ~Failing(NewRecord)
                   => result'.status = result.status /\ pc' # "done"
              /\ oe = "continue" /\ j = Len(ch)
                   => /\ \A m \in 1..Len(ch) :
                            result'.steps[n - Len(ch) + m].name = NameOf(i, m)
                      /\ (\E m \in 1..Len(ch) :
                             Failing(result'.steps[n - Len(ch) + m]))
                           => result'.status = "partial" ]_vars

\* A child whose own on_error is continue ended in error in a group without
\* on_error, and the flow was aborted.
C33_Witness ==
    \E k \in 1..Len(result.steps) :
       LET sr == result.steps[k]
       IN  /\ sr.name[2] # 0
           /\ Failing(sr)
           /\ StepOf(sr.name).onError = "continue"
           /\ flow[sr.name[1]].onError = ""
           /\ result.status = "failed" /\ pc = "done"

\* A child without on_error failed in a group with on_error continue, and
\* every child of the group was recorded.
C33_WitnessContinue ==
    \E k \in 1..Len(result.steps) :
       LET sr == result.steps[k]
       IN  /\ sr.name[2] = 1
           /\ Failing(sr)
           /\ StepOf(sr.name).onError = ""
           /\ flow[sr.name[1]].onError = "continue"
           /\ Len(result.steps) >= k + Len(flow[sr.name[1]].parallel) - 1
           /\ result.status = "partial"

\* The record of step n that says its retry loop was ended by cancellation.
CancelledDuringRetry(sr) ==
    sr.status = "error" /\ sr.error = "context cancelled during retry"

\* Call p is blocked in the select of its backoff.
Waiting(p) == procs[p].phase = "backoff" /\ ~procs[p].doneAtSelect

\* C34: once the context is done while a call of executeStepWithRetry waits in
\* its backoff, the next thing the call does is return the step's result with
\* status "error" and the error "context cancelled during retry"; the step is
\* not attempted again, then or later.
C34_CancelEndsBackoff ==
    [][ /\ \A p \in DOMAIN procs :
            (Waiting(p) /\ cancelled) =>
               /\ hist'[procs[p].step.name] = hist[procs[p].step.name]
               /\ (p \in DOMAIN procs' /\ procs'[p] # procs[p]) =>
                     /\ procs'[p].phase = "done"
                     /\ CancelledDuringRetry(procs'[p].sr)
        /\ \A p \in DOMAIN procs :
            CancelledDuringRetry(procs[p].sr) =>
               hist'[procs[p].step.name] = hist[procs[p].step.name]
        /\ \A i \in 1..Len(result.steps) :
            CancelledDuringRetry(result.steps[i]) =>
               hist'[result.steps[i].name] = hist[result.steps[i].name] ]_vars

\* C34's case: the context was not done when the step began to wait, it was
\* cancelled during the wait, and the step is recorded as cancelled during
\* retry after a single attempt.
C34_Witness ==
    /\ cancelled
    /\ \E p \in DOMAIN procs :
          /\ procs[p].phase = "done" /\ CancelledDuringRetry(procs[p].sr)
          /\ ~procs[p].late /\ ~procs[p].doneAtSelect
          /\ procs[p].sr.retries = 1
          /\ Len(hist[procs[p].step.name].attempts) = 1
          /\ hist[procs[p].step.name].waits = <<>>

\* C35: before retry attempt a of a step whose backoff_seconds is configured
\* (positive, whole or fractional), the engine has slept backoff_seconds times
\* 2^(a-1) seconds: wait a of the step, counted in hundredths of a second, is
\* BackoffSeconds * 2^(a-1) hundredths.
C35_WaitsDouble ==
    \A n \in StepNames(flow) :
       (HasRetryLoop(StepOf(n)) /\ StepOf(n).retry.BackoffSeconds > 0) =>
          \A a \in 1..Len(hist[n].waits) :
             hist[n].waits[a] = StepOf(n).retry.BackoffSeconds * Pow2(a - 1)

\* The target of a flow step as claimed: step.flow, or else the string under
\* the key flow of the resolved input.
ClaimedFlowName(step, sc) ==
    IF step.flow # "" THEN step.flow
    ELSE AsString(ResolveValues(sc, step.input).val, "flow")

\* C36: a flow step whose input resolves runs the flow named by step.flow or,
\* when that is empty, by the key flow of its resolved input; it runs it on the
\* resolved input without that key; when both names are empty the step ends
\* with status "error" and no flow is run.
C36_TargetFlow ==
    ret.op = "executeFlowStep" =>
       \A i \in 1..2 :
          LET o == ret.out[i]
              name == ClaimedFlowName(call.step, call.sctx[i])
          IN  (call.e.hasLoader
               /\ ~ResolveValues(call.sctx[i], call.step.input).err) =>
                 /\ name = "" => (o.sr.status = "error" /\ ~o.called)
                 /\ name \notin DOMAIN LoadedFlows =>
                       (o.sr.status = "error" /\ ~o.called)
                 /\ name \in DOMAIN LoadedFlows =>
                       /\ o.called
                       /\ o.run = Run(call.e, LoadedFlows[name], o.childInput)

\* The checks of ValidateFlow that step i of VS violates, each looked at on its
\* own.
ViolatedChecks(i) ==
    LET step == VS[i]
    IN  { k \in {"name_required", "duplicate_name", "connector_required",
                 "connector_not_found", "action_not_supported",
                 "invalid_on_error"} :
            CASE k = "name_required" -> step.name = NoName
              [] k = "duplicate_name" ->
                   /\ step.name # NoName
                   /\ step.name \in DOMAIN stepNamesAt(VS, i - 1)
              [] k = "connector_required" -> step.connector = ""
              [] k = "connector_not_found" ->
                   step.connector # "" /\ step.connector \notin Registered
              [] k = "action_not_supported" ->
                   /\ step.connector \in Registered /\ step.action # ""
                   /\ step.action \notin Actions(step.connector)
              [] OTHER -> step.onError \notin {"", "abort", "continue", "skip"} }

\* The checks of the flow header that the flow violates.
ViolatedHeader ==
    (IF call.flow.name = "" THEN {"flow_name_required"} ELSE {})
    \cup (IF VS = <<>> THEN {"no_steps"} ELSE {})

\* C37: the error of ValidateFlow holds an issue for every check that a step
\* or the header violates, whatever else the step and the steps before it
\* violate, and a reference issue for every reference its walk finds at
\* fault; it is nil exactly when no check is violated.
C37_AllIssuesCollected ==
    Validated =>
        /\ \A k \in ViolatedHeader : \E e \in ret.issues : e.kind = k
        /\ \A i \in 1..Len(VS) :
              /\ \A k \in ViolatedChecks(i) :
                    \E e \in ret.issues : e.kind = k /\ e.at = i
              /\ validateStepRefs(VS[i].refs, stepNamesAt(VS, i),
                                  VS[i].name, i) \subseteq ret.issues
        /\ (ret.issues = {}) <=>
              /\ ViolatedHeader = {}
              /\ \A i \in 1..Len(VS) :
                    /\ ViolatedChecks(i) = {}
                    /\ validateStepRefs(VS[i].refs, stepNamesAt(VS, i),
                                        VS[i].name, i) = {}

\* ValidateFlow returns nil for the flow of the run.
Accepted == ValidateFlow([name |-> "f", steps |-> flow]) = {}

\* C38: in a run of a flow that ValidateFlow accepts, no attempt of a step
\* finds that a step its input refers to has no entry in the context.
C38_AcceptedRefsRecorded ==
    Accepted =>
       \A n \in StepNames(flow) :
          \A a \in 1..Len(hist[n].attempts) :
             \A e \in hist[n].attempts[a].res : e[2] # "not_found"

\* ResolveMap has returned; it has returned twice.
ResolvedOnce == call.op = "ResolveMap" /\ ret # NoRet
ResolvedTwice == ResolvedOnce /\ Len(ret.out) = 2

\* A value with the maps and lists it refers to in its place.
RECURSIVE Deep(_, _)
Deep(h, v) ==
    IF v.t # "ref" THEN v
    ELSE [t |-> h[v.v].kind,
          v |-> [k \in DOMAIN h[v.v].ent |-> Deep(h, h[v.v].ent[k])]]

\* The addresses of the maps and lists a value reaches.
RECURSIVE Reach(_, _)
Reach(h, v) ==
    IF v.t # "ref" THEN {}
    ELSE {v.v} \cup UNION { Reach(h, h[v.v].ent[k]) : k \in DOMAIN h[v.v].ent }

\* The maps and lists of the StepContext and those of the declared input.
ContextAddrs ==
    {call.sc.Input, call.sc.Steps, call.sc.Env}
    \cup Reach(call.heap, HRef(call.sc.Input))
    \cup UNION { IF call.heap[call.sc.Steps].ent[n].output = 0 THEN {}
                 ELSE Reach(call.heap,
                            HRef(call.heap[call.sc.Steps].ent[n].output)) :
                   n \in DOMAIN call.heap[call.sc.Steps].ent }
DeclaredAddrs == Reach(call.heap, HRef(call.m))

\* No object that existed before the call has changed.
HeapKept == \A a \in DOMAIN call.heap : ret.heap[a] = call.heap[a]

\* C39 as claimed: the heap is kept, every map and list of a result is newly
\* allocated, and two calls return equal results, errors included.
C39_AsClaimed ==
    ResolvedOnce =>
       /\ HeapKept
       /\ \A i \in 1..Len(ret.out) :
             Reach(ret.heap, ret.out[i].val) \cap DOMAIN call.heap = {}
       /\ ResolvedTwice =>
             /\ Deep(ret.heap, ret.out[1].val) = Deep(ret.heap, ret.out[2].val)
             /\ ret.out[1].err = ret.out[2].err

\* C39: ResolveMap changes no map or list of the StepContext or of the
\* declared input; the map it returns, and the map or list it returns for
\* every map or list of the declared input, is newly allocated (an object of
\* the result that existed before is a map or list of the context that a whole
\* expression evaluated to); two calls on an unchanged context return equal
\* values in objects of their own, or both fail; the declared input is the
\* same after the calls.
C39_Pure ==
    ResolvedOnce =>
       /\ HeapKept
       /\ Deep(ret.heap, HRef(call.m)) = Deep(call.heap, HRef(call.m))
       /\ \A i \in 1..Len(ret.out) :
             LET R == Reach(ret.heap, ret.out[i].val)
             IN  /\ ret.out[i].err = <<>> =>
                       /\ ret.out[i].val.t = "ref"
                       /\ ret.out[i].val.v \notin DOMAIN call.heap
                 /\ R \cap DeclaredAddrs = {}
                 /\ (R \cap DOMAIN call.heap) \subseteq ContextAddrs
       /\ ResolvedTwice =>
             /\ Deep(ret.heap, ret.out[1].val) = Deep(ret.heap, ret.out[2].val)
             /\ (ret.out[1].err = <<>>) <=> (ret.out[2].err = <<>>)
             /\ (Reach(ret.heap, ret.out[1].val)
                   \cap Reach(ret.heap, ret.out[2].val)) \subseteq ContextAddrs

\* C39's case: a declared input with a nested map and a nested list that holds
\* a map has been resolved twice without error; the result shares a map with
\* the context.
C39_Witness ==
    /\ ResolvedTwice
    /\ ret.out[1].err = <<>> /\ ret.out[2].err = <<>>
    /\ DeclaredAddrs = {7, 8, 9, 10}
    /\ Cardinality(Reach(ret.heap, ret.out[2].val) \ ContextAddrs) = 4
    /\ Reach(ret.heap, ret.out[2].val) \cap ContextAddrs # {}

\* The most iterations the retry loop of a step can make.
RetryBound(step) ==
    IF ~(step.retry.present /\ step.onError = "retry") THEN 0
    ELSE IF step.retry.MaxRetries <= 0 THEN 3
    ELSE step.retry.MaxRetries

\* Each declared step has at most one record, its condition is evaluated at
\* most once, and it is attempted at most once more than its retry loop has
\* iterations.
Bounded ==
    \A n \in StepNames(flow) :
       /\ Cardinality({ i \in 1..Len(result.steps) : result.steps[i].name = n }) <= 1
       /\ Len(hist[n].whens) <= 1
       /\ Len(hist[n].attempts) <= 1 + RetryBound(StepOf(n))
       /\ Len(hist[n].waits) <= RetryBound(StepOf(n))

\* C40: every run terminates and returns a completed FlowResult, whether the
\* caller cancels or not; on the way each declared step is processed at most
\* once and each retry loop makes at most max_retries iterations (3 when
\* max_retries is not positive).
C40_RunTerminates == []Bounded /\ <>(pc = "done" /\ result.completed)

\* C40's case: a run has returned in which a retry loop with max_retries 0
\* made its 3 iterations.
C40_Witness ==
    /\ pc = "done" /\ result.completed
    /\ \E n \in StepNames(flow) :
          /\ HasRetryLoop(StepOf(n)) /\ StepOf(n).retry.MaxRetries = 0
          /\ Len(hist[n].attempts) = 4 /\ Len(hist[n].waits) = 3

====
